---- MODULE Spec2Model ----
(***************************************************************************)
(* Model of the cantori-attendance report job: the concert-cycle          *)
(* computation, the three report generators and the three report drivers  *)
(* of function_app.py.                                                     *)
(*                                                                         *)
(* Dates are Python proleptic ordinals (date.toordinal()), restricted to  *)
(* the years 1..3, none of which is a leap year, so that a year has 365   *)
(* days, September 1 is day 244 of its year, and d + timedelta(days=1)    *)
(* is d + 1.                                                               *)
(***************************************************************************)
EXTENDS Integers, Sequences, FiniteSets, TLC

VARIABLES
    pc,                 \* position of the operation under study
    today,              \* current_nyc_date
    roster,             \* Monday.com roster table
    candidates,         \* Monday.com audition board
    cg_active,          \* ChoirGenius active-member table
    actual_attendance,  \* ChoirGenius attendance grid (past rehearsals)
    projected_attendance, \* ChoirGenius forecast grid (rehearsals)
    projected_concert_attendance, \* ChoirGenius forecast grid (concerts)
    cycle,              \* the (cycle_from, cycle_to) arguments of a report generator
    ret,                \* value returned (or exception raised) by the operation
    kind,               \* which report the driver run is for
    trigger,            \* what started the run: timer, past-due timer, HTTP POST
    hour,               \* current_nyc_time.hour
    vault,              \* which secrets the Azure vault holds
    board,              \* the Monday.com boards as the API returns them
    portal,             \* the ChoirGenius portal: events, export headers, members
    pending,            \* the fetches of a gather that have not completed
    outbox,             \* the emails sent by the run, in order
    exc                 \* the exception that escaped the driver, if any

\* the arguments of the operation under study
args == <<today, roster, candidates, cg_active, actual_attendance,
          projected_attendance, projected_concert_attendance, cycle>>

\* the environment of a driver run
env == <<kind, trigger, hour, vault, board, portal>>

\* the progress of a driver run
run == <<pending, outbox, exc>>

vars == <<pc, args, ret, env, run>>

----------------------------------------------------------------------------
(* Bounds *)

NumDays == 5

----------------------------------------------------------------------------
(* Calendar *)

\* date.year of an ordinal (365 days a year in the years 1..3)
YearOf(d) == ((d - 1) \div 365) + 1

\* date(year, 9, 1): September 1 is day 244 of a common year
Sep1(year) == (year - 1) * 365 + 244

\* date.weekday(): Monday is 0, Thursday is 3
Weekday(d) == (d + 6) % 7

\* The dates the model draws from: two days before September 1 of year 1
\* (a Thursday) onwards.
Dates == (Sep1(1) - 2)..(Sep1(1) - 3 + NumDays)

\* Python's None where a date is expected (no ordinal is 0)
NoDate == 0

----------------------------------------------------------------------------
(* Helpers on finite sets of dates *)

MinOf(S) == CHOOSE x \in S : \A y \in S : x <= y

MaxOf(S) == CHOOSE x \in S : \A y \in S : y <= x

RECURSIVE Sorted(_)
Sorted(S) == IF S = {} THEN <<>> ELSE <<MinOf(S)>> \o Sorted(S \ {MinOf(S)})

----------------------------------------------------------------------------
(* function_app.py: _determine_concert_cycle *)

NoCyclesMsg == "Monday.com roster has no concert cycles defined"

NotInSeasonMsg == "Today isn't part of the season (as defined by Monday.com roster)"

Raise(exception, msg) == [status |-> exception, msg |-> msg]

\* CycleLoop with the lower bound of the window test left out
RECURSIVE CycleLoopNoLowerBound(_, _, _, _)
CycleLoopNoLowerBound(concert_dates, i, cycle_from, t) ==
    IF i > Len(concert_dates)
    THEN Raise("CantoriError", NotInSeasonMsg)
    ELSE LET cycle_to == concert_dates[i] IN
         IF t <= cycle_to
         THEN [status |-> "ok", cycle_from |-> cycle_from, cycle_to |-> cycle_to]
         ELSE CycleLoopNoLowerBound(concert_dates, i + 1, cycle_to + 1, t)

\* the for loop of _determine_concert_cycle, from index i with the current cycle_from
RECURSIVE CycleLoop(_, _, _, _)
CycleLoop(concert_dates, i, cycle_from, t) ==
    IF i > Len(concert_dates)
    THEN Raise("CantoriError", NotInSeasonMsg)
    ELSE LET cycle_to == concert_dates[i] IN
         IF cycle_from <= t /\ t <= cycle_to
         THEN [status |-> "ok", cycle_from |-> cycle_from, cycle_to |-> cycle_to]
         ELSE CycleLoop(concert_dates, i + 1, cycle_to + 1, t)

\* the first cycle starting on January 1 of the first concert's year
_determine_concert_cycle_from_january(r, t) ==
    LET concert_dates == Sorted(r.dates) IN
    IF concert_dates = <<>>
    THEN Raise("CantoriError", NoCyclesMsg)
    ELSE CycleLoop(concert_dates, 1, (YearOf(concert_dates[1]) - 1) * 365 + 1, t)

\* lines 188-199
_determine_concert_cycle(r, t) ==
    LET concert_dates == Sorted(r.dates) IN
    IF concert_dates = <<>>
    THEN Raise("CantoriError", NoCyclesMsg)
    ELSE CycleLoop(concert_dates, 1, Sep1(YearOf(concert_dates[1])), t)

----------------------------------------------------------------------------
(* Tables *)

EmptyTable == [dates |-> {}, rows |-> <<>>]

NoCycle == [cycle_from |-> NoDate, cycle_to |-> NoDate]

NoReturn == [status |-> "none"]

\* The variables of the drivers, in the specifications of the pure functions
NoDriver ==
    /\ kind = "none"
    /\ trigger = "none"
    /\ hour = 0
    /\ vault = {}
    /\ board = EmptyTable
    /\ portal = EmptyTable
    /\ pending = {}
    /\ outbox = <<>>
    /\ exc = NoReturn

\* A roster with the concert-date columns D and no singers
RosterOfDates(D) == [dates |-> D, rows |-> <<>>]

\* An attendance grid with the date columns D and no singers
GridOfDates(D) == [dates |-> D, rows |-> <<>>]

\* the singers of a table (its "Name" column)
Names(t) == DOMAIN t.rows

\* the columns of r extended by those of s (disjoint column sets)
Extend(r, s) == [ f \in DOMAIN r \cup DOMAIN s |-> IF f \in DOMAIN r THEN r[f] ELSE s[f] ]

----------------------------------------------------------------------------
(* Specification of _determine_concert_cycle as a pure function *)

InitCycle ==
    /\ pc = "cycle_args"
    /\ today \in Dates
    /\ \E D \in SUBSET Dates : roster = RosterOfDates(D)
    /\ candidates = EmptyTable
    /\ cg_active = EmptyTable
    /\ actual_attendance = EmptyTable
    /\ projected_attendance = EmptyTable
    /\ projected_concert_attendance = EmptyTable
    /\ cycle = NoCycle
    /\ ret = NoReturn
    /\ NoDriver

DetermineCycle ==
    /\ pc = "cycle_args"
    /\ pc' = "cycle_done"
    /\ ret' = _determine_concert_cycle(roster, today)
    /\ UNCHANGED <<args, env, run>>

NextCycle == DetermineCycle

SpecCycle == InitCycle /\ [][NextCycle]_vars

\* The cycle windows of a set D of concert dates, as pairs <<from, to>>: the
\* first runs from September 1 of the first concert's year to the first
\* concert, every other one from the day after the preceding concert.
CycleWindows(D) ==
    { <<IF \E p \in D : p < c
        THEN MaxOf({p \in D : p < c}) + 1
        ELSE Sep1(YearOf(c)), c>> : c \in D }

WindowsContaining(D, t) == { w \in CycleWindows(D) : w[1] <= t /\ t <= w[2] }

\* C6: _determine_concert_cycle either returns a window (cycle_from, cycle_to)
\* with cycle_from <= today <= cycle_to, today lying in exactly one of the
\* pairwise disjoint cycle windows, or raises CantoriError, which it does only
\* when the roster has no concert dates or no window contains today.
C6_CycleContainsToday ==
    pc = "cycle_done" =>
        LET W == CycleWindows(roster.dates)
            In == WindowsContaining(roster.dates, today)
        IN  /\ \A v \in W : \A w \in W :
                   v # w => \A d \in Dates : ~(v[1] <= d /\ d <= v[2] /\ w[1] <= d /\ d <= w[2])
            /\ ret.status \in {"ok", "CantoriError"}
            /\ ret.status = "ok" =>
                   /\ ret.cycle_from <= today /\ today <= ret.cycle_to
                   /\ In = {<<ret.cycle_from, ret.cycle_to>>}
            /\ ret.status = "CantoriError" => (roster.dates = {} \/ In = {})

\* a run that returns the second window of a roster with an empty first window
C6_Witness ==
    /\ pc = "cycle_done"
    /\ ret.status = "ok"
    /\ Cardinality(roster.dates) >= 2
    /\ ret.cycle_to # MinOf(roster.dates)
    /\ ret.cycle_from = MinOf(roster.dates) + 1

----------------------------------------------------------------------------
(* pandas values *)

\* a missing value in a text or categorical column (None / NaN)
NA == "NA"

\* a missing value in a numeric column (NaN / <NA>); marks and counts are >= 0
NaN == 0 - 1

\* elementwise != of two object columns: a missing operand compares unequal
PdNe(a, b) == a = NA \/ b = NA \/ a # b

\* Series.fillna
fillna(a, b) == IF a = NA THEN b ELSE a

fillna_num(a, b) == IF a = NaN THEN b ELSE a

\* elementwise ==, > and + of numeric columns: a comparison with NaN is False,
\* a sum with NaN is NaN
NumEq(a, b) == a # NaN /\ b # NaN /\ a = b

NumGt(a, b) == a # NaN /\ b # NaN /\ a > b

NumGe(a, b) == a # NaN /\ b # NaN /\ a >= b

NumAdd(a, b) == IF a = NaN \/ b = NaN THEN NaN ELSE a + b

\* float("inf") as a sort key: above every label position of the board
Inf == 1000 * 1000

----------------------------------------------------------------------------
(* report_utils.py: states of a singer for a concert *)

SINGING_STATES == {"Yes", "Partial"}

PARTIAL_STATES == {"Partial"}

MAYBE_STATES == {"Maybe"}

NO_STATES == {"No"}

----------------------------------------------------------------------------
(* monday.py: roster rows *)

\* _parse_voice_part_column: voice part -> position and colour of its label;
\* a voice part without a label gets neither (defaultdict)
voice_part_metadata(voice_part) ==
    CASE voice_part = "Soprano" -> [sort_key |-> 1, color |-> "red"]
      [] voice_part = "Bass"    -> [sort_key |-> 2, color |-> "blue"]
      [] OTHER                  -> [sort_key |-> NaN, color |-> NA]

\* _parse_roster_item: the status per concert date, the text fields, and the
\* metadata of the voice part
roster_item(status, email, voice_part) ==
    [ status |-> status, Email |-> email, Voice_Part |-> voice_part,
      sort_key |-> voice_part_metadata(voice_part).sort_key,
      color |-> voice_part_metadata(voice_part).color ]

----------------------------------------------------------------------------
(* The tables drawn as inputs *)

\* the status of a singer for a concert, or no entry
Statuses == SINGING_STATES \cup MAYBE_STATES \cup NO_STATES \cup {NA}

\* a mark of an attendance grid: absent, present, no entry (Int32)
Marks == {0, 1, NaN}

\* A table of up to two singers: Alice with any of the rows A (or absent when
\* a = {}), Bob with the row b (or absent).
TableOf(D, a, b) ==
    [ dates |-> D,
      rows |-> [ n \in {"Alice" : x \in a} \cup {"Bob" : x \in b} |->
                    IF n = "Alice" THEN CHOOSE x \in a : TRUE ELSE CHOOSE x \in b : TRUE ] ]

AtMostOne(S) == { {} } \cup { {x} : x \in S }

----------------------------------------------------------------------------
(* report_utils.py: _fill_and_sort, format_mismatch_table *)

\* The fill of _fill_and_sort on one row.  A row of a join against the
\* ChoirGenius member query has a whole_name column; for it the Email
\* replacement is overwritten by Email.fillna(EMAIL) (dict.update).
fill_row(r) ==
    IF "whole_name" \in DOMAIN r
    THEN [r EXCEPT !.color = fillna(r.color, "black"),
                   !.sort_key = fillna_num(r.sort_key, Inf),
                   !.Name = fillna(r.Name, r.whole_name),
                   !.Email = fillna(r.Email, r.EMAIL),
                   !.Voice_Part = fillna(r.Voice_Part, r.voice_part)]
    ELSE [r EXCEPT !.color = fillna(r.color, "black"),
                   !.sort_key = fillna_num(r.sort_key, Inf),
                   !.Email = fillna(r.Email, "email-is-missing")]

\* the order of str on the singer names of the model; a missing name sorts last
name_rank(n) ==
    CASE n = "Alice" -> 1
      [] n = "Bob"   -> 2
      [] OTHER       -> 3

\* sorting by "Name" alone
sorts_before_by_name(a, b) == name_rank(a.Name) <= name_rank(b.Name)

\* line 154: the order of sort_values(["sort_key", "Name"])
sorts_before(a, b) ==
    \/ a.sort_key < b.sort_key
    \/ a.sort_key = b.sort_key /\ name_rank(a.Name) <= name_rank(b.Name)

\* line 154: DataFrame.sort_values, the rows as a sequence
RECURSIVE sort_values(_)
sort_values(rows) ==
    IF rows = {}
    THEN <<>>
    ELSE LET first == CHOOSE r \in rows : \A o \in rows : sorts_before(r, o)
         IN  <<first>> \o sort_values(rows \ {first})

\* the rows of a table
Rows(table) == { table[i] : i \in DOMAIN table }

\* the filled rows, sorted
_fill_and_sort(df) == sort_values({ fill_row(r) : r \in df })

\* format_mismatch_table: "None", or the table of the rows known to both
\* systems whose two columns differ
format_mismatch_table(singers, monday_col, choirgenius_col) ==
    LET df == { r \in singers : r.cg = "both" /\ PdNe(r[monday_col], r[choirgenius_col]) }
    IN  IF df = {}
        THEN [text |-> "None", rows |-> {}]
        ELSE [text |-> "<table>",
              rows |-> { <<r.Name, r[monday_col], r[choirgenius_col]>> : r \in df }]

\* format_singers_oneline: "None", or one mailto link per singer, in the order
\* of the rows
format_singers_oneline(singers) ==
    IF singers = <<>>
    THEN [text |-> "None", links |-> <<>>]
    ELSE [text |-> "<a>",
          links |-> [ i \in DOMAIN singers |->
                        [ href |-> <<"mailto:", singers[i].Email>>,
                          background_color |-> singers[i].color,
                          name |-> singers[i].Name ] ]]

\* format_singers_indented: the line of format_singers_oneline in a paragraph
format_singers_indented(singers) ==
    [ tag |-> "p", style |-> "margin-left: 1.5rem", line |-> format_singers_oneline(singers) ]

----------------------------------------------------------------------------
(* Python values, where the code compares values of different types *)

PyInt(n) == [type |-> "int", value |-> n]

\* obj.name without a call: the bound method object itself
BoundMethod(obj, name) == [type |-> "method", value |-> <<obj, name>>]

\* == between Python objects: values of different types are never equal
PyEq(a, b) == a.type = b.type /\ a.value = b.value

----------------------------------------------------------------------------
(* attendance_report.py: generate_attendance_report *)

\* line 35: current_nyc_date.weekday == 3 (the method is not called)
today_is_thursday(current_nyc_date) ==
    PyEq(BoundMethod(current_nyc_date, "weekday"), PyInt(3))

\* lines 38-42
future_rehearsals_of(projected, most_recent_rehearsal) ==
    { c \in projected.dates :
        most_recent_rehearsal = NoDate \/ c > most_recent_rehearsal }

\* The merges rename a date column that occurs on both sides ("<date>_x",
\* "<date>_projected", ...), so that looking it up by its date raises KeyError:
\* join[cycle_to] and join[concerts] need the concert columns unrenamed
\* (lines 60, 65), and join[f"{most_recent_rehearsal}_actual"] needs the most
\* recent rehearsal to be a column of both grids (lines 77, 79).
attendance_lookup_fails(actual, projected, r, most_recent_rehearsal, cycle_to) ==
    \/ cycle_to \notin r.dates
    \/ r.dates \cap (projected.dates \cup actual.dates) # {}
    \/ most_recent_rehearsal # NoDate /\ most_recent_rehearsal \notin projected.dates

\* line 44: actual_attendance[past_rehearsals].sum(axis=1); a missing mark is
\* skipped by the sum
RECURSIVE sum_marks(_, _)
sum_marks(marks, columns) ==
    IF columns = {}
    THEN 0
    ELSE LET c == CHOOSE x \in columns : TRUE
         IN  fillna_num(marks[c], 0) + sum_marks(marks, columns \ {c})

\* the projected absences with every column not marked 1 counted
absences_not_confirmed(marks, future_rehearsals) ==
    Cardinality({ c \in future_rehearsals : marks[c] # 1 })

\* line 48: (projected_attendance[future_rehearsals] == 0).sum(axis=1)
absences_marked(marks, future_rehearsals) ==
    Cardinality({ c \in future_rehearsals : NumEq(marks[c], 0) })

\* line 50: roster.merge(projected_attendance, on="Name", how="outer",
\* indicator="projected"), with the Absences column of line 48
merge_projected(r, projected, future_rehearsals) ==
    { [ Name |-> n,
        status |-> IF n \in Names(r) THEN r.rows[n].status ELSE [d \in r.dates |-> NA],
        Email |-> IF n \in Names(r) THEN r.rows[n].Email ELSE NA,
        Voice_Part |-> IF n \in Names(r) THEN r.rows[n].Voice_Part ELSE NA,
        sort_key |-> IF n \in Names(r) THEN r.rows[n].sort_key ELSE NaN,
        color |-> IF n \in Names(r) THEN r.rows[n].color ELSE NA,
        marks_projected |-> IF n \in Names(projected) THEN projected.rows[n]
                            ELSE [c \in projected.dates |-> NaN],
        Absences_projected |->
            IF n \in Names(projected)
            THEN absences_marked(projected.rows[n], future_rehearsals)
            ELSE NaN,
        projected |-> IF n \notin Names(projected) THEN "left_only"
                      ELSE IF n \notin Names(r) THEN "right_only" ELSE "both" ]
      : n \in Names(r) \cup Names(projected) }

\* lines 44-45: the Attended and Absences columns of a row of the actual grid
actual_columns(actual, n) ==
    [ marks_actual |-> actual.rows[n],
      Attended |-> sum_marks(actual.rows[n], actual.dates),
      Absences_actual |-> Cardinality(actual.dates) - sum_marks(actual.rows[n], actual.dates) ]

\* lines 51-53: merge(actual_attendance, on="Name", how="outer",
\* indicator="actual", suffixes=("_projected", "_actual")); a singer of the
\* actual grid alone gets a row whose "projected" indicator is missing
merge_actual(join, r, projected, actual) ==
    { Extend(j, IF j.Name \in Names(actual)
                THEN Extend(actual_columns(actual, j.Name), [actual |-> "both"])
                ELSE [ marks_actual |-> [c \in actual.dates |-> NaN],
                       Attended |-> NaN, Absences_actual |-> NaN,
                       actual |-> "left_only" ])
      : j \in join }
    \cup
    { Extend([ Name |-> n, status |-> [d \in r.dates |-> NA], Email |-> NA,
               Voice_Part |-> NA, sort_key |-> NaN, color |-> NA,
               marks_projected |-> [c \in projected.dates |-> NaN],
               Absences_projected |-> NaN, projected |-> NA,
               actual |-> "right_only" ],
             actual_columns(actual, n))
      : n \in Names(actual) \ { j.Name : j \in join } }

\* line 56
with_absences_total(j) ==
    Extend(j, [Absences_total |-> NumAdd(j.Absences_actual, j.Absences_projected)])

\* line 58: join.projected != "right_only"
on_monday_roster(j) == PdNe(j.projected, "right_only")

\* singing according to the roster and known to the projected grid
singing_and_in_grid(j, cycle_to) ==
    j.status[cycle_to] \in SINGING_STATES /\ j.projected # "left_only"

\* line 60 (projected_report.py line 29): join[cycle_to].isin(SINGING_STATES)
singing_this_cycle(j, cycle_to) == j.status[cycle_to] \in SINGING_STATES

\* line 61
maybe_this_cycle(j, cycle_to) == j.status[cycle_to] \in MAYBE_STATES

\* line 63
attended_at_least_one(j) == NumGt(j.Attended, 0)

\* line 65: join[concerts].drop(columns=cycle_to)
other_cycles(j, cycle_to) == DOMAIN j.status \ {cycle_to}

\* another cycle marked Yes or Partial, whatever the status of this cycle
other_cycles_yes_any(j, cycle_to) ==
    \E c \in other_cycles(j, cycle_to) : j.status[c] \in SINGING_STATES

\* line 66
other_cycles_yes(j, cycle_to) ==
    /\ \E c \in other_cycles(j, cycle_to) : j.status[c] \in SINGING_STATES
    /\ ~singing_this_cycle(j, cycle_to)

\* lines 67-69
other_cycles_maybe(j, cycle_to) ==
    /\ \E c \in other_cycles(j, cycle_to) : j.status[c] \in MAYBE_STATES
    /\ ~(singing_this_cycle(j, cycle_to) \/ other_cycles_yes(j, cycle_to))

\* line 70
gone(j, cycle_to) ==
    /\ on_monday_roster(j)
    /\ ~(\/ singing_this_cycle(j, cycle_to)
         \/ other_cycles_yes(j, cycle_to)
         \/ other_cycles_maybe(j, cycle_to))

\* three or more absences, whoever the singer is
relevant_absences_of_anyone(j, cycle_to) == NumGe(j.Absences_total, 3)

\* line 74
relevant_absences(j, cycle_to) ==
    singing_this_cycle(j, cycle_to) /\ NumGe(j.Absences_total, 3)

\* present when the mark is not an explicit 0
present_unless_marked_absent(j, most_recent_rehearsal) ==
    most_recent_rehearsal # NoDate /\ j.marks_actual[most_recent_rehearsal] # 0

\* lines 77 and 81: (join[f"{most_recent_rehearsal}_actual"] == 1).fillna(False)
present_tonight(j, most_recent_rehearsal) ==
    most_recent_rehearsal # NoDate /\ NumEq(j.marks_actual[most_recent_rehearsal], 1)

\* lines 78 and 81
absent_tonight(j, cycle_to, most_recent_rehearsal) ==
    /\ most_recent_rehearsal # NoDate
    /\ singing_this_cycle(j, cycle_to)
    /\ ~present_tonight(j, most_recent_rehearsal)

\* lines 79, 81 and 83
Excused(j, most_recent_rehearsal) ==
    IF most_recent_rehearsal # NoDate /\ NumEq(j.marks_projected[most_recent_rehearsal], 0)
    THEN "Marked in CG"
    ELSE "Unexcused?"

\* report_utils.py format_subtotals_table: the sum of each indicator per voice
\* part; groupby leaves out the rows whose voice part is missing
format_subtotals_table(df, indicators) ==
    [ v \in { j.Voice_Part : j \in df } \ {NA} |->
        [ k \in DOMAIN indicators |->
            Cardinality({ j \in df : j.Voice_Part = v /\ j \in indicators[k] }) ] ]

\* lines 96-179: the headings of the body, in order
attendance_body_sections ==
    << "This Week", "Next Rehearsal", "This Cycle", "Looking Ahead", "Consistency Checks" >>

generate_attendance_report(actual, projected, r, current_nyc_date, cycle_from, cycle_to) ==
    LET past_rehearsals == actual.dates
        first_rehearsal ==
            IF past_rehearsals # {} THEN MinOf(past_rehearsals) ELSE cycle_from
        most_recent_rehearsal ==
            IF past_rehearsals # {} THEN MaxOf(past_rehearsals) ELSE NoDate
        worth_sending ==
            today_is_thursday(current_nyc_date) \/ most_recent_rehearsal = current_nyc_date
        future_rehearsals == future_rehearsals_of(projected, most_recent_rehearsal)
    IN  IF attendance_lookup_fails(actual, projected, r, most_recent_rehearsal, cycle_to)
        THEN Raise("KeyError", "column")
        ELSE
        LET filled == _fill_and_sort(
                          merge_actual(merge_projected(r, projected, future_rehearsals),
                                       r, projected, actual))
            table == [ i \in DOMAIN filled |->
                         Extend(with_absences_total(filled[i]),
                                [Excused |-> Excused(filled[i], most_recent_rehearsal)]) ]
            join == Rows(table)
            singing == { j \in join : singing_this_cycle(j, cycle_to) }
            present == { j \in join : present_tonight(j, most_recent_rehearsal) }
            absent == { j \in join : absent_tonight(j, cycle_to, most_recent_rehearsal) }
        IN  [ status |-> "ok",
              worth_sending |-> worth_sending,
              first_rehearsal |-> first_rehearsal,
              most_recent_rehearsal |-> most_recent_rehearsal,
              next_rehearsal |->
                  IF future_rehearsals # {} THEN <<MinOf(future_rehearsals)>> ELSE <<"N/A">>,
              next_week |->
                  IF future_rehearsals # {}
                  THEN [section |-> "projected_absence_details",
                        rehearsal_col |-> MinOf(future_rehearsals)]
                  ELSE [section |-> "No more rehearsals this cycle!",
                        rehearsal_col |-> NoDate],
              table |-> table,
              join |-> join,
              sets |->
                [ singing_this_cycle |-> singing,
                  maybe_this_cycle |-> { j \in join : maybe_this_cycle(j, cycle_to) },
                  attended_at_least_one |-> { j \in join : attended_at_least_one(j) },
                  other_cycles_yes |-> { j \in join : other_cycles_yes(j, cycle_to) },
                  other_cycles_maybe |-> { j \in join : other_cycles_maybe(j, cycle_to) },
                  gone |-> { j \in join : gone(j, cycle_to) },
                  relevant_absences |-> { j \in join : relevant_absences(j, cycle_to) },
                  present_tonight |-> present,
                  absent_tonight |-> absent ],
              body |-> attendance_body_sections,
              this_week |->
                [ heading |-> most_recent_rehearsal,
                  subtotals |-> format_subtotals_table(
                                    singing, [Present |-> present, Absent |-> absent]),
                  absence_details |-> { <<j.Name, j.Excused, j.Voice_Part>> : j \in absent } ] ]

----------------------------------------------------------------------------
(* Specification of generate_attendance_report as a pure function *)

\* a concert of a later cycle
LaterConcert == Sep1(2)

InitAttendance ==
    /\ pc = "attendance_args"
    /\ today \in Dates
    /\ \E to \in Dates : \E other \in SUBSET {LaterConcert} :
          /\ roster = RosterOfDates({to} \cup other)
          /\ cycle = [cycle_from |-> MinOf(Dates), cycle_to |-> to]
    /\ candidates = EmptyTable
    /\ cg_active = EmptyTable
    /\ \E D \in SUBSET Dates : actual_attendance = GridOfDates(D)
    /\ \E D \in SUBSET Dates : projected_attendance = GridOfDates(D)
    /\ projected_concert_attendance = EmptyTable
    /\ ret = NoReturn
    /\ NoDriver

GenerateAttendanceReport ==
    /\ pc = "attendance_args"
    /\ pc' = "attendance_done"
    /\ ret' = generate_attendance_report(actual_attendance, projected_attendance, roster,
                                         today, cycle.cycle_from, cycle.cycle_to)
    /\ UNCHANGED <<args, env, run>>

NextAttendance == GenerateAttendanceReport

SpecAttendance == InitAttendance /\ [][NextAttendance]_vars

\* the most recent past rehearsal, NoDate when there is none yet
MostRecentRehearsal == 
    IF actual_attendance.dates = {} THEN NoDate ELSE MaxOf(actual_attendance.dates)

\* C1: generate_attendance_report returns worth_sending = true exactly when
\* today is a Thursday (the weekly send day) or the most recent past rehearsal
\* is today; with no past rehearsal, exactly when today is a Thursday.
C1_WorthSendingThursdayOrRehearsal ==
    (pc = "attendance_done" /\ ret.status = "ok") =>
        (ret.worth_sending <=> (Weekday(today) = 3 \/ MostRecentRehearsal = today))

----------------------------------------------------------------------------
(* projected_report.py: generate_projected_attendance_report *)

\* line 26, with the comparison strict: rehearsals after today only
upcoming_rehearsals_strict(projected, t) == { c \in projected.dates : c > t }

\* line 26: the date columns on or after today
upcoming_rehearsals(projected, t) == { c \in projected.dates : c >= t }

\* A date column common to the roster and the grid is renamed by the merge of
\* line 23, so join[cycle_to] (line 29) and join[next_rehearsal] (line 31)
\* raise KeyError for it.
projected_lookup_fails(projected, r, cycle_to, next_rehearsal) ==
    \/ cycle_to \notin r.dates
    \/ cycle_to \in projected.dates
    \/ next_rehearsal \in r.dates

\* line 23: roster.merge(projected_attendance, on="Name", how="outer",
\* indicator="projected")
merge_roster_projected(r, projected) ==
    { [ Name |-> n,
        status |-> IF n \in Names(r) THEN r.rows[n].status ELSE [d \in r.dates |-> NA],
        Email |-> IF n \in Names(r) THEN r.rows[n].Email ELSE NA,
        Voice_Part |-> IF n \in Names(r) THEN r.rows[n].Voice_Part ELSE NA,
        sort_key |-> IF n \in Names(r) THEN r.rows[n].sort_key ELSE NaN,
        color |-> IF n \in Names(r) THEN r.rows[n].color ELSE NA,
        marks_projected |-> IF n \in Names(projected) THEN projected.rows[n]
                            ELSE [c \in projected.dates |-> NaN],
        projected |-> IF n \notin Names(projected) THEN "left_only"
                      ELSE IF n \notin Names(r) THEN "right_only" ELSE "both" ]
      : n \in Names(r) \cup Names(projected) }

generate_projected_attendance_report(projected, r, t, cycle_to) ==
    LET upcoming == upcoming_rehearsals(projected, t) IN
    IF upcoming = {}
    THEN Raise("ValueError", "min() arg is an empty sequence")
    ELSE LET next_rehearsal == MinOf(upcoming)
             worth_sending == next_rehearsal = t
         IN  IF projected_lookup_fails(projected, r, cycle_to, next_rehearsal)
             THEN Raise("KeyError", "column")
             ELSE
             LET table == _fill_and_sort(merge_roster_projected(r, projected))
                 join == Rows(table)
                 singing == { j \in join : singing_this_cycle(j, cycle_to) }
                 confirmed == { j \in join : NumEq(j.marks_projected[next_rehearsal], 1) }
                 marked_absent == { j \in join : NumEq(j.marks_projected[next_rehearsal], 0) }
                 not_marked == { j \in join : j.marks_projected[next_rehearsal] = NaN }
             IN  [ status |-> "ok",
                   worth_sending |-> worth_sending,
                   next_rehearsal |-> <<next_rehearsal>>,
                   next_week |-> [section |-> "projected_absence_details",
                                  rehearsal_col |-> next_rehearsal],
                   table |-> table,
                   join |-> join,
                   sets |-> [ singing_this_cycle |-> singing ],
                   subtotals |-> format_subtotals_table(
                                     singing, [Confirmed |-> confirmed,
                                               Marked_Absent |-> marked_absent,
                                               Not_Marked |-> not_marked]) ]

----------------------------------------------------------------------------
(* Specification of generate_projected_attendance_report as a pure function *)

InitProjected ==
    /\ pc = "projected_args"
    /\ today \in Dates
    /\ \E to \in Dates \cup {LaterConcert} : \E other \in SUBSET {LaterConcert} :
          /\ roster = RosterOfDates({to} \cup other)
          /\ cycle = [cycle_from |-> MinOf(Dates), cycle_to |-> to]
    /\ candidates = EmptyTable
    /\ cg_active = EmptyTable
    /\ actual_attendance = EmptyTable
    /\ \E D \in SUBSET Dates : projected_attendance = GridOfDates(D)
    /\ projected_concert_attendance = EmptyTable
    /\ ret = NoReturn
    /\ NoDriver

GenerateProjectedReport ==
    /\ pc = "projected_args"
    /\ pc' = "projected_done"
    /\ ret' = generate_projected_attendance_report(projected_attendance, roster,
                                                   today, cycle.cycle_to)
    /\ UNCHANGED <<args, env, run>>

NextProjected == GenerateProjectedReport

SpecProjected == InitProjected /\ [][NextProjected]_vars

\* C9: when generate_projected_attendance_report returns, next_rehearsal is
\* the earliest projected date column on or after today, and worth_sending is
\* true if and only if that date is today, that is, if and only if a rehearsal
\* is projected for today.
C9_ProjectedWorthSendingIffRehearsalToday ==
    (pc = "projected_done" /\ ret.status = "ok") =>
        LET next == ret.next_rehearsal[1] IN
        /\ next \in projected_attendance.dates
        /\ next >= today
        /\ \A d \in projected_attendance.dates : d >= today => next <= d
        /\ ret.worth_sending <=> (next = today)
        /\ ret.worth_sending <=> (today \in projected_attendance.dates)

\* a report worth sending, with a later rehearsal also projected
C9_Witness ==
    /\ pc = "projected_done"
    /\ ret.status = "ok"
    /\ ret.worth_sending
    /\ \E d \in projected_attendance.dates : d > today

\* a report not worth sending: the next rehearsal is after today
C9_WitnessNotToday ==
    /\ pc = "projected_done"
    /\ ret.status = "ok"
    /\ ~ret.worth_sending
    /\ \E d \in projected_attendance.dates : d < today

\* C10 (as claimed, for the projected-only report): next_rehearsal is the
\* earliest projected date column on or after today, and when there is none
\* the report is still produced, with the "no more rehearsals" placeholder.
C10_ProjectedPlaceholderWhenNoRehearsal ==
    pc = "projected_done" =>
        IF \E d \in projected_attendance.dates : d >= today
        THEN ret.status = "ok" =>
                ret.next_rehearsal[1] = MinOf({d \in projected_attendance.dates : d >= today})
        ELSE /\ ret.status = "ok"
             /\ ret.next_week.section = "No more rehearsals this cycle!"

\* C10 (as claimed, for the attendance report): next_rehearsal is the earliest
\* projected date column strictly after the most recent past rehearsal, and
\* when there is none the report renders the "no more rehearsals" placeholder.
C10_AttendancePlaceholderWhenNoRehearsal ==
    (pc = "attendance_done" /\ ret.status = "ok") =>
        LET after == { d \in projected_attendance.dates : d > MostRecentRehearsal } IN
        IF after # {}
        THEN /\ ret.next_rehearsal = <<MinOf(after)>>
             /\ ret.next_week.section = "projected_absence_details"
             /\ ret.next_week.rehearsal_col = MinOf(after)
        ELSE /\ ret.next_rehearsal = <<"N/A">>
             /\ ret.next_week.section = "No more rehearsals this cycle!"

----------------------------------------------------------------------------
(* Specification of the two attendance reports on tables with singers *)

\* the most rehearsals that have taken place
MaxPast == 2

\* the concert that ends the cycle, the day after the last rehearsal day
CycleEnd == MaxOf(Dates) + 1

\* the first k days of the cycle
FirstDays(k) == { d \in Dates : d < MinOf(Dates) + k }

\* the days of the cycle from a day on
DaysFrom(from) == { d \in Dates : d >= from }

InitRows ==
    /\ pc \in {"attendance_args", "projected_args"}
    /\ today = MinOf(Dates) + 1
    /\ cycle = [cycle_from |-> MinOf(Dates), cycle_to |-> CycleEnd]
    /\ \E a \in AtMostOne({ roster_item([d \in {CycleEnd, LaterConcert} |->
                                            IF d = CycleEnd THEN s ELSE o],
                                        "a@x", "Soprano") :
                               s \in Statuses, o \in {"Yes", "Maybe", NA} }),
          b \in AtMostOne({ roster_item([d \in {CycleEnd, LaterConcert} |-> "Yes"],
                                        NA, "Bass") }) :
          roster = TableOf({CycleEnd, LaterConcert}, a, b)
    /\ candidates = EmptyTable
    /\ cg_active = EmptyTable
    /\ IF pc = "attendance_args"
       THEN \E k \in 0..MaxPast : \E a \in AtMostOne([FirstDays(k) -> Marks]) :
               actual_attendance = TableOf(FirstDays(k), a, {})
       ELSE actual_attendance = EmptyTable
    /\ \E from \in Dates \cup {CycleEnd} :
          \E a \in AtMostOne([DaysFrom(from) -> Marks]),
             b \in AtMostOne({ [d \in DaysFrom(from) |-> 0] }) :
             projected_attendance = TableOf(DaysFrom(from), a, b)
    /\ projected_concert_attendance = EmptyTable
    /\ ret = NoReturn
    /\ NoDriver

NextRows == GenerateAttendanceReport \/ GenerateProjectedReport

SpecRows == InitRows /\ [][NextRows]_vars

\* the report of the run has been generated
Generated == pc \in {"attendance_done", "projected_done"} /\ ret.status = "ok"

AttendanceGenerated == pc = "attendance_done" /\ ret.status = "ok"

\* the rows of the returned table with a given singer
RowsOf(n) == { j \in ret.join : j.Name = n }

----------------------------------------------------------------------------
(* consistency_report.py: generate_consistency_report *)

\* line 34: roster.merge(candidates, on="Name", how="outer", indicator="audition")
merge_audition(r, cands) ==
    { [ Name |-> n,
        status |-> IF n \in Names(r) THEN r.rows[n].status ELSE [d \in r.dates |-> NA],
        Email |-> IF n \in Names(r) THEN r.rows[n].Email ELSE NA,
        Voice_Part |-> IF n \in Names(r) THEN r.rows[n].Voice_Part ELSE NA,
        sort_key |-> IF n \in Names(r) THEN r.rows[n].sort_key ELSE NaN,
        color |-> IF n \in Names(r) THEN r.rows[n].color ELSE NA,
        Group |-> IF n \in Names(cands) THEN cands.rows[n].Group ELSE NA,
        RESULT |-> IF n \in Names(cands) THEN cands.rows[n].RESULT ELSE NA,
        EMAIL |-> IF n \in Names(cands) THEN cands.rows[n].EMAIL ELSE NA,
        audition |-> IF n \notin Names(cands) THEN "left_only"
                     ELSE IF n \notin Names(r) THEN "right_only" ELSE "both" ]
      : n \in Names(r) \cup Names(cands) }

\* line 35: merge(cg_active, left_on="Name", right_on="whole_name", how="outer",
\* indicator="cg"); a member unknown to both boards gets a row without Name
merge_cg(join, r, active) ==
    { Extend(j, IF j.Name \in Names(active)
                THEN [ whole_name |-> j.Name,
                       primary_email |-> active.rows[j.Name].primary_email,
                       voice_part |-> active.rows[j.Name].voice_part,
                       cg |-> "both" ]
                ELSE [ whole_name |-> NA, primary_email |-> NA, voice_part |-> NA,
                       cg |-> "left_only" ])
      : j \in join }
    \cup
    { [ Name |-> NA, status |-> [d \in r.dates |-> NA], Email |-> NA, Voice_Part |-> NA,
        sort_key |-> NaN, color |-> NA, Group |-> NA, RESULT |-> NA, EMAIL |-> NA,
        audition |-> NA,
        whole_name |-> w,
        primary_email |-> active.rows[w].primary_email,
        voice_part |-> active.rows[w].voice_part,
        cg |-> "right_only" ]
      : w \in Names(active) \ { j.Name : j \in join } }

\* lines 38-43: the number of concert columns with the mark m in a row
concerts_marked(pca, n, m) == Cardinality({ c \in pca.dates : pca.rows[n][c] = m })

\* lines 44-49: merge(..., on="Name", how="outer", indicator="concert_attendance");
\* a row without Name matches no row of the grid
merge_concert_attendance(join, r, pca) ==
    { Extend(j, IF j.Name \in Names(pca)
                THEN [ Concerts_Marked_Absent |-> concerts_marked(pca, j.Name, 0),
                       Concerts_Marked_Singing |-> concerts_marked(pca, j.Name, 1),
                       concert_attendance |-> "both" ]
                ELSE [ Concerts_Marked_Absent |-> NaN, Concerts_Marked_Singing |-> NaN,
                       concert_attendance |-> "left_only" ])
      : j \in join }
    \cup
    { [ Name |-> n, status |-> [d \in r.dates |-> NA], Email |-> NA, Voice_Part |-> NA,
        sort_key |-> NaN, color |-> NA, Group |-> NA, RESULT |-> NA, EMAIL |-> NA,
        audition |-> NA,
        whole_name |-> NA, primary_email |-> NA, voice_part |-> NA, cg |-> NA,
        Concerts_Marked_Absent |-> concerts_marked(pca, n, 0),
        Concerts_Marked_Singing |-> concerts_marked(pca, n, 1),
        concert_attendance |-> "right_only" ]
      : n \in Names(pca) \ { j.Name : j \in join } }

\* line 57
might_sing_this_cycle(j, cycle_to) == j.status[cycle_to] \in SINGING_STATES \cup MAYBE_STATES

\* line 67: join.Concerts_Marked_Absent == len(concerts)
marked_no(j, n_concerts) == NumEq(j.Concerts_Marked_Absent, n_concerts)

\* line 68
marked_partial(j, n_concerts) ==
    NumGt(j.Concerts_Marked_Absent, 0) /\ ~marked_no(j, n_concerts)

\* line 69: join.Concerts_Marked_Singing == len(concerts)
marked_yes(j, n_concerts) == NumEq(j.Concerts_Marked_Singing, n_concerts)

\* line 70
marked_something(j) ==
    NumGt(NumAdd(j.Concerts_Marked_Absent, j.Concerts_Marked_Singing), 0)

\* on the roster as Yes or Partial, the "maybes" left out, and not in the portal
roster_singing_missing_from_cg(j, cycle_to) ==
    j.status[cycle_to] \in SINGING_STATES /\ j.cg = "left_only"

\* lines 56-58: might_sing_this_cycle & not_in_cg
roster_missing_from_cg(j, cycle_to) ==
    might_sing_this_cycle(j, cycle_to) /\ j.cg = "left_only"

\* a member known to the portal alone
cg_missing_from_both_boards_only(j) == j.cg = "right_only"

\* lines 60-62: cg_missing_from_both_monday_boards |
\* cg_missing_from_roster_but_did_audition
cg_missing_from_roster(j) ==
    \/ j.cg = "right_only"
    \/ j.audition = "right_only" /\ j.cg = "both"

\* lines 78-90, with the roster-missing-from-ChoirGenius term left out
any_discrepancy_but_roster_missing(sets, email_mismatch, voice_mismatch) ==
    \/ sets.candidates_missing_from_roster # {}
    \/ sets.cg_missing_from_roster # {}
    \/ email_mismatch.text # "None"
    \/ voice_mismatch.text # "None"
    \/ sets.marked_no_but_might_sing # {}
    \/ sets.marked_partial_but_not_partial # {}
    \/ sets.marked_yes_but_not_singing # {}
    \/ sets.partial_roster_but_marked_nonpartial # {}

\* lines 78-90: worth_sending = any([...])
any_discrepancy(sets, email_mismatch, voice_mismatch) ==
    \/ sets.candidates_missing_from_roster # {}
    \/ sets.cg_missing_from_roster # {}
    \/ sets.roster_missing_from_cg # {}
    \/ email_mismatch.text # "None"
    \/ voice_mismatch.text # "None"
    \/ sets.marked_no_but_might_sing # {}
    \/ sets.marked_partial_but_not_partial # {}
    \/ sets.marked_yes_but_not_singing # {}
    \/ sets.partial_roster_but_marked_nonpartial # {}

\* An empty record list gives a frame without columns (DataFrame.from_records),
\* and merging it on "Name" raises KeyError (line 34).
consistency_merge_fails(r, cands) == Names(r) = {} \/ Names(cands) = {}

generate_consistency_report(r, cands, active, pca, season, cycle_to) ==
    IF consistency_merge_fails(r, cands)
    THEN Raise("KeyError", "Name")
    ELSE
    LET table == _fill_and_sort(
                     merge_concert_attendance(
                         merge_cg(merge_audition(r, cands), r, active), r, pca))
        join == Rows(table)
        n_concerts == Cardinality(pca.dates)
        accepted(j) == j.Group = season /\ j.RESULT = "Accepted"
        sets ==
          [ candidates_missing_from_roster |->
                { j \in join : accepted(j) /\ j.audition = "right_only" },
            roster_missing_from_cg |->
                { j \in join : roster_missing_from_cg(j, cycle_to) },
            cg_missing_from_roster |-> { j \in join : cg_missing_from_roster(j) },
            marked_no_but_might_sing |->
                { j \in join : marked_no(j, n_concerts) /\ might_sing_this_cycle(j, cycle_to) },
            marked_partial_but_not_partial |->
                { j \in join : /\ marked_partial(j, n_concerts)
                               /\ j.status[cycle_to] \notin PARTIAL_STATES },
            partial_roster_but_marked_nonpartial |->
                { j \in join : /\ j.status[cycle_to] \in PARTIAL_STATES
                               /\ ~marked_partial(j, n_concerts)
                               /\ marked_something(j) },
            marked_yes_but_not_singing |->
                { j \in join : /\ marked_yes(j, n_concerts)
                               /\ j.status[cycle_to] \in NO_STATES \cup MAYBE_STATES } ]
        email_mismatch == format_mismatch_table(join, "Email", "primary_email")
        voice_mismatch == format_mismatch_table(join, "Voice_Part", "voice_part")
        \* lines 92-166: join[mask], the rows of a set in the order of the table
        listed(k) == LET selected(j) == j \in sets[k] IN SelectSeq(table, selected)
    IN  [ status |-> "ok",
          worth_sending |-> any_discrepancy(sets, email_mismatch, voice_mismatch),
          table |-> table,
          join |-> join,
          sets |-> sets,
          body |-> [ k \in DOMAIN sets |-> format_singers_indented(listed(k)) ],
          email_mismatch |-> email_mismatch,
          voice_mismatch |-> voice_mismatch ]

----------------------------------------------------------------------------
(* function_app.py: _determine_season *)

\* f"{y}-{str(y + 1)[-2:]}" for the years of the model
season_name(y) ==
    CASE y = 0 -> "0-1"
      [] y = 1 -> "1-2"
      [] y = 2 -> "2-3"
      [] OTHER -> "3-4"

\* month >= 6: June 1 is day 152 of a common year
_determine_season(d) ==
    IF d - (YearOf(d) - 1) * 365 >= 152
    THEN season_name(YearOf(d))
    ELSE season_name(YearOf(d) - 1)

----------------------------------------------------------------------------
(* Specification of generate_consistency_report as a pure function *)

MaxConcertEvents == 2

\* the concert events of the cycle the forecast grid may have a column for
ConcertEventDates == { d \in Dates : d < MinOf(Dates) + MaxConcertEvents }

\* the season of the run and the one before it
Groups(t) == { _determine_season(t), _determine_season(t - 365) }

InitConsistency ==
    /\ pc = "consistency_args"
    /\ today = MinOf(Dates)
    /\ cycle = [cycle_from |-> MinOf(Dates), cycle_to |-> MaxOf(Dates)]
    /\ \E a \in AtMostOne({ roster_item([d \in {cycle.cycle_to} |-> s], e, v) :
                               s \in Statuses, e \in {"a@x", NA}, v \in {"Soprano", NA} }),
          b \in AtMostOne({ roster_item([d \in {cycle.cycle_to} |-> "Yes"], "b@x", "Bass") }) :
          roster = TableOf({cycle.cycle_to}, a, b)
    /\ \E a \in AtMostOne([ Group : Groups(today), RESULT : {"Accepted", "Rejected"},
                            EMAIL : {"c@x", NA} ]),
          b \in AtMostOne({ [Group |-> _determine_season(today), RESULT |-> "Accepted",
                             EMAIL |-> NA] }) :
          candidates = TableOf({}, a, b)
    /\ \E a \in AtMostOne([ primary_email : {"a@x", "b@x", NA},
                            voice_part : {"Soprano", "Bass"} ]),
          b \in AtMostOne({ [primary_email |-> "b@x", voice_part |-> "Bass"] }) :
          cg_active = TableOf({}, a, b)
    /\ actual_attendance = EmptyTable
    /\ projected_attendance = EmptyTable
    /\ \E D \in SUBSET ConcertEventDates :
          \E a \in AtMostOne([D -> Marks]), b \in AtMostOne({ [d \in D |-> NaN] }) :
             projected_concert_attendance = TableOf(D, a, b)
    /\ ret = NoReturn
    /\ NoDriver

GenerateConsistencyReport ==
    /\ pc = "consistency_args"
    /\ pc' = "consistency_done"
    /\ ret' = generate_consistency_report(roster, candidates, cg_active,
                                          projected_concert_attendance,
                                          _determine_season(today), cycle.cycle_to)
    /\ UNCHANGED <<args, env, run>>

NextConsistency == GenerateConsistencyReport

SpecConsistency == InitConsistency /\ [][NextConsistency]_vars

\* C7: generate_consistency_report returns worth_sending = true if and only if
\* one of the seven discrepancy sets is non-empty or the email or voice-part
\* mismatch table is not "None".
C7_WorthSendingIffDiscrepancy ==
    (pc = "consistency_done" /\ ret.status = "ok") =>
        (ret.worth_sending <=>
            \/ \E k \in DOMAIN ret.sets : ret.sets[k] # {}
            \/ ret.email_mismatch.text # "None"
            \/ ret.voice_mismatch.text # "None")

\* a report sent for the only reason that a roster singer is not active in
\* ChoirGenius
C7_Witness ==
    /\ pc = "consistency_done"
    /\ ret.status = "ok"
    /\ ret.worth_sending
    /\ ret.sets.roster_missing_from_cg # {}
    /\ \A k \in DOMAIN ret.sets \ {"roster_missing_from_cg"} : ret.sets[k] = {}
    /\ ret.email_mismatch.text = "None"
    /\ ret.voice_mismatch.text = "None"

\* a report with nothing to report
C7_WitnessQuiet ==
    /\ pc = "consistency_done"
    /\ ret.status = "ok"
    /\ ~ret.worth_sending
    /\ Cardinality(ret.join) = 2

\* the number of concert columns of the forecast grid marked m by singer n
MarkCount(n, m) ==
    Cardinality({ c \in projected_concert_attendance.dates :
                    projected_concert_attendance.rows[n][c] = m })

\* The self-reported concert marks of singer n agree with the roster: a singer
\* who marked nothing reports nothing; otherwise "Yes" goes with no absence,
\* "Partial" with some but not all concerts marked absent, "No" with every
\* concert marked absent.
MarksAgreeWithRoster(n) ==
    LET absent == MarkCount(n, 0)
        present == MarkCount(n, 1)
        concerts == Cardinality(projected_concert_attendance.dates)
        status == roster.rows[n].status[cycle.cycle_to]
    IN  \/ absent = 0 /\ present = 0
        \/ status = "Yes" /\ absent = 0
        \/ status = "Partial" /\ 0 < absent /\ absent < concerts
        \/ status = "No" /\ absent = concerts

\* The two systems agree: the same singers, with the same email and voice
\* part, on the roster and in the active-member table, every accepted
\* candidate of the season on the roster, and concert marks only of roster
\* singers and in agreement with their roster status.
SystemsAgree ==
    /\ Names(roster) = Names(cg_active)
    /\ \A n \in Names(roster) :
          /\ roster.rows[n].Email # NA
          /\ roster.rows[n].Email = cg_active.rows[n].primary_email
          /\ roster.rows[n].Voice_Part # NA
          /\ roster.rows[n].Voice_Part = cg_active.rows[n].voice_part
    /\ \A n \in Names(candidates) :
          (candidates.rows[n].Group = _determine_season(today)
             /\ candidates.rows[n].RESULT = "Accepted") => n \in Names(roster)
    /\ Names(projected_concert_attendance) \subseteq Names(roster)
    /\ \A n \in Names(projected_concert_attendance) : MarksAgreeWithRoster(n)

NothingToReport ==
    /\ ~ret.worth_sending
    /\ \A k \in DOMAIN ret.sets : ret.sets[k] = {}
    /\ ret.email_mismatch.text = "None"
    /\ ret.voice_mismatch.text = "None"

\* C8: when the roster and the portal agree (same singers, same email and
\* voice part, no accepted candidate missing from the roster, concert marks in
\* agreement with the roster status), generate_consistency_report yields
\* worth_sending = false and every discrepancy set is empty.
C8_AgreeingTablesNothingToReport ==
    (pc = "consistency_done" /\ ret.status = "ok" /\ SystemsAgree) => NothingToReport

\* The same with at least one concert column in the forecast grid.
C8_AgreeingTablesWithConcerts ==
    (/\ pc = "consistency_done"
     /\ ret.status = "ok"
     /\ SystemsAgree
     /\ projected_concert_attendance.dates # {}) => NothingToReport

C8_WitnessWithConcerts ==
    /\ pc = "consistency_done"
    /\ ret.status = "ok"
    /\ SystemsAgree
    /\ Cardinality(Names(roster)) = 2
    /\ \E n \in Names(projected_concert_attendance) : MarkCount(n, 0) = 1 /\ MarkCount(n, 1) = 1

----------------------------------------------------------------------------
(* monday.py, choirgenius.py: column headers and their parsing *)

\* monday.py line 29: the format of a concert column title, "Oct 3, 2024"
ROSTER_DATE_FORMAT == "%b %d, %Y"

\* choirgenius.py line 21: the format of an export date header, "10-03-2024"
DATE_FORMAT == "%m-%d-%Y"

\* a date written in neither format, "10/03/2024"
SLASH_FORMAT == "%m/%d/%Y"

\* a column header: the date it is meant to denote and how it is written
Header(format, d) == [format |-> format, date |-> d]

\* datetime.strptime(header, format) succeeds only on a header written in that format
strptime_ok(header, format) == header.format = format

\* col[0].isdigit()
starts_with_digit(header) == header.format \in {DATE_FORMAT, SLASH_FORMAT}

\* _parse_roster_query / _parse_roster_item: a title that parses as a date is
\* a date column; for any other title the ValueError is caught and the title
\* is kept as a text column (lines 21-32)
parse_roster(b) ==
    LET date_columns == { h \in b.columns : strptime_ok(h, ROSTER_DATE_FORMAT) }
        dates == { h.date : h \in date_columns }
    IN  [ status |-> "ok",
          dates |-> dates,
          text_columns |-> b.columns \ date_columns,
          rows |-> [ n \in DOMAIN b.rows |->
                       roster_item([d \in dates |-> b.rows[n].status],
                                   b.rows[n].Email, b.rows[n].Voice_Part) ] ]

\* parse_audition_query
parse_auditions(b) == [dates |-> {}, rows |-> b.auditions]

\* _fetch_csv_report: the export has one column per event of the half-open
\* range [date_from, date_to + 1 day), and a row per member
export_headers(p, events, date_from, date_to) ==
    LET in_range == { d \in events : date_from <= d /\ d <= date_to } IN
    { Header(IF p.bad_header # "none" /\ d = MinOf(in_range)
             THEN p.bad_header ELSE DATE_FORMAT, d) : d \in in_range }

\* _parse_csv_export (lines 119-121): a header starting with a digit is
\* parsed as a date, and strptime raises ValueError when it is not one; any
\* other header is kept as a text column
_parse_csv_export(p, headers) ==
    IF \E h \in headers : starts_with_digit(h) /\ ~strptime_ok(h, DATE_FORMAT)
    THEN Raise("ValueError", "time data does not match format")
    ELSE LET dates == { h.date : h \in { g \in headers : starts_with_digit(g) } } IN
         [ status |-> "ok",
           dates |-> dates,
           text_columns |-> { h \in headers : ~starts_with_digit(h) },
           rows |-> [ n \in DOMAIN p.members |-> [d \in dates |-> NaN] ] ]

\* get_active
get_active(p) == [dates |-> {}, rows |-> p.members]

----------------------------------------------------------------------------
(* report.py: the generators the drivers import *)

\* report.py lines 203-358.  min() of no past rehearsal raises ValueError
\* (line 215); the lookups of renamed columns raise KeyError (lines 239-258);
\* with no future rehearsal next_rehearsal is unbound when the body is
\* formatted (line 285).
report_generate_attendance_report(actual, projected, r, current_nyc_date, cycle_to) ==
    LET past_rehearsals == actual.dates IN
    IF past_rehearsals = {}
    THEN Raise("ValueError", "min() arg is an empty sequence")
    ELSE
    LET most_recent_rehearsal == MaxOf(past_rehearsals)
        worth_sending == most_recent_rehearsal = current_nyc_date
        future_rehearsals == { c \in projected.dates : c > most_recent_rehearsal }
    IN  IF attendance_lookup_fails(actual, projected, r, most_recent_rehearsal, cycle_to)
        THEN Raise("KeyError", "column")
        ELSE IF future_rehearsals = {}
        THEN Raise("UnboundLocalError", "next_rehearsal")
        ELSE [ status |-> "ok",
               worth_sending |-> worth_sending,
               subject |-> "Attendance Report" ]

\* report.py lines 165-200, the same computation as projected_report.py
report_generate_projected_attendance_report(projected, r, t, cycle_to) ==
    LET rep == generate_projected_attendance_report(projected, r, t, cycle_to) IN
    IF rep.status # "ok" THEN rep
    ELSE [ status |-> "ok", worth_sending |-> rep.worth_sending,
           subject |-> "Projected attendance" ]

\* report.py lines 22-162, the same computation as consistency_report.py
report_generate_consistency_report(r, cands, active, pca, season, cycle_to) ==
    LET rep == generate_consistency_report(r, cands, active, pca, season, cycle_to) IN
    IF rep.status # "ok" THEN rep
    ELSE [ status |-> "ok", worth_sending |-> rep.worth_sending,
           subject |-> "ChoirGenius vs Monday.com consistency check failed!" ]

----------------------------------------------------------------------------
(* graph_email.py, function_app.py: emails and secrets *)

ATTENDANCE_EMAILS ==
    << "attendance@cantorinewyork.com", "richard.berg@cantorinewyork.com",
       "sectionleaders@cantorinewyork.com" >>

CONSISTENCY_EMAILS ==
    << "attendance@cantorinewyork.com", "richard.berg@cantorinewyork.com" >>

ERROR_EMAILS == << "richard.berg@cantorinewyork.com" >>

MONDAY_SECRET_NAME == "monday-api-key"

CHOIRGENIUS_SECRET_USER == "choirgenius-user"

CHOIRGENIUS_SECRET_PASSWORD == "choirgenius-password"

\* send_email: an empty body is skipped, anything else is posted
send_email(box, subject, body, to_address) ==
    IF body = "" THEN box
    ELSE Append(box, [subject |-> subject, body |-> body, to |-> to_address])

\* _get_monday_key: the secret's value, or RuntimeError when it is empty
_get_monday_key(v) ==
    IF MONDAY_SECRET_NAME \notin v
    THEN Raise("RuntimeError", "Monday API key not found in Vault")
    ELSE [status |-> "ok"]

\* _get_choirgenius: the client, or RuntimeError when user or password is empty
_get_choirgenius(v) ==
    IF ~(CHOIRGENIUS_SECRET_USER \in v /\ CHOIRGENIUS_SECRET_PASSWORD \in v)
    THEN Raise("RuntimeError", "ChoirGenius credentials not found in Vault")
    ELSE [status |-> "ok"]

\* get_roster: the key, then the parsed board
get_roster(v, b) ==
    IF _get_monday_key(v).status # "ok" THEN _get_monday_key(v) ELSE parse_roster(b)

\* get_audition_candidates
get_audition_candidates(v, b) ==
    IF _get_monday_key(v).status # "ok" THEN _get_monday_key(v)
    ELSE [status |-> "ok"] @@ parse_auditions(b)

\* the table of a successful fetch
TableOfFetch(f) == [ k \in DOMAIN f \ {"status"} |-> f[k] ]

----------------------------------------------------------------------------
(* function_app.py: the report drivers *)

Kinds == {"attendance", "projected", "consistency"}

Triggers == {"timer", "timer_past_due", "http"}

\* hours around the 7PM cut-off of send_attendance_report
Hours == {18, 19, 20}

AllSecrets == {MONDAY_SECRET_NAME, CHOIRGENIUS_SECRET_USER, CHOIRGENIUS_SECRET_PASSWORD}

\* the vault complete, without the Monday key, without the ChoirGenius password
Vaults == { AllSecrets, AllSecrets \ {MONDAY_SECRET_NAME},
            AllSecrets \ {CHOIRGENIUS_SECRET_PASSWORD} }

\* the days the roster board may have a concert column for
ConcertDays == { MinOf(Dates) + 1, MaxOf(Dates) }

\* the HTTP routes not passing force=True
force_never == FALSE

\* force=True of the HTTP routes, the default False of the timer triggers
force == trigger = "http"

\* lines 83-86: today's rehearsal is excluded while hour <= 19
rehearsals_to(h, current_nyc_date) ==
    IF h <= 19 THEN current_nyc_date - 1 ELSE current_nyc_date

\* the recipients of the report of a driver
report_recipients(k) == IF k = "consistency" THEN CONSISTENCY_EMAILS ELSE ATTENDANCE_EMAILS

\* a gather that awaits the first of its fetches only
gathered_first_only(k) ==
    CASE k = "attendance"  -> {"actual_attendance"}
      [] k = "projected"   -> {"projected_attendance"}
      [] k = "consistency" -> {"roster"}

\* the fetches a driver awaits jointly (asyncio.gather); the projected driver
\* awaits its single fetch
gathered(k) ==
    CASE k = "attendance"  -> {"actual_attendance", "projected_attendance"}
      [] k = "projected"   -> {"projected_attendance"}
      [] k = "consistency" -> {"roster", "candidates", "cg_active"}

\* the result of one fetch: a table with status "ok", or the exception raised
fetch(f) ==
    CASE f = "roster" -> get_roster(vault, board)
      [] f = "candidates" -> get_audition_candidates(vault, board)
      [] f = "cg_active" -> [status |-> "ok"] @@ get_active(portal)
      [] f = "actual_attendance" ->
            _parse_csv_export(portal, export_headers(portal, portal.rehearsals,
                                  cycle.cycle_from, rehearsals_to(hour, today)))
      [] f = "projected_attendance" ->
            _parse_csv_export(portal, export_headers(portal, portal.rehearsals,
                                  cycle.cycle_from, cycle.cycle_to))
      [] f = "projected_concert_attendance" ->
            _parse_csv_export(portal, export_headers(portal, portal.concerts,
                                  cycle.cycle_from, cycle.cycle_to))

\* the variables after fetch f has delivered table t
Deliver(f, t) ==
    /\ roster' = IF f = "roster" THEN t ELSE roster
    /\ candidates' = IF f = "candidates" THEN t ELSE candidates
    /\ cg_active' = IF f = "cg_active" THEN t ELSE cg_active
    /\ actual_attendance' = IF f = "actual_attendance" THEN t ELSE actual_attendance
    /\ projected_attendance' = IF f = "projected_attendance" THEN t ELSE projected_attendance
    /\ projected_concert_attendance' =
          IF f = "projected_concert_attendance" THEN t ELSE projected_concert_attendance

\* an exception other than CantoriError leaves the driver: nothing catches it
Propagate(e) ==
    /\ pc' = "raised"
    /\ exc' = e

InitDriver ==
    /\ pc = "triggered"
    /\ kind \in Kinds
    /\ trigger \in Triggers
    /\ hour \in IF kind = "attendance" THEN Hours ELSE {MaxOf(Hours)}
    /\ today \in Dates
    /\ vault \in Vaults
    /\ \E C \in SUBSET ConcertDays :
       \E bad \in AtMostOne({ Header(SLASH_FORMAT, MinOf(Dates) + 2) }) :
          board = [ columns |-> { Header(ROSTER_DATE_FORMAT, d) : d \in C } \cup bad,
                    rows |-> [ n \in {"Alice"} |->
                                 [status |-> "Yes", Email |-> "a@x", Voice_Part |-> "Soprano"] ],
                    auditions |-> [ n \in {"Alice"} |->
                                 [Group |-> _determine_season(today), RESULT |-> "Accepted",
                                  EMAIL |-> NA] ] ]
    /\ \E R \in SUBSET Dates :
       \E C \in SUBSET ConcertDays :
       \E bad \in {"none", SLASH_FORMAT, ROSTER_DATE_FORMAT} :
       \E m \in SUBSET {"Alice"} :
          /\ kind = "consistency" => R = {}
          /\ kind # "consistency" => C = {} /\ m = {"Alice"}
          /\ portal = [ rehearsals |-> R, concerts |-> C, bad_header |-> bad,
                        members |-> [ n \in m |->
                                        [primary_email |-> "a@x", voice_part |-> "Soprano"] ] ]
    /\ roster = EmptyTable
    /\ candidates = EmptyTable
    /\ cg_active = EmptyTable
    /\ actual_attendance = EmptyTable
    /\ projected_attendance = EmptyTable
    /\ projected_concert_attendance = EmptyTable
    /\ cycle = NoCycle
    /\ ret = NoReturn
    /\ pending = {}
    /\ outbox = <<>>
    /\ exc = NoReturn

\* a timer whose past_due is never set
past_due_never == FALSE

\* myTimer.past_due of the timer triggers; the HTTP routes have no timer
past_due == trigger = "timer_past_due"

\* trigger_*_report / post_*_report: a past-due timer returns at once; the
\* attendance and projected drivers start with get_roster, the consistency
\* driver with _get_choirgenius
Trigger ==
    /\ pc = "triggered"
    /\ pc' = IF past_due THEN "returned"
             ELSE IF kind = "consistency" THEN "open_cg" ELSE "get_roster"
    /\ UNCHANGED <<args, ret, env, run>>

\* roster = await get_roster()  (send_attendance_report, send_projected_attendance_report)
GetRoster ==
    /\ pc = "get_roster"
    /\ LET r == get_roster(vault, board) IN
       IF r.status = "ok"
       THEN /\ Deliver("roster", TableOfFetch(r))
            /\ pc' = "compute_cycle"
            /\ exc' = exc
       ELSE /\ Propagate(r)
            /\ UNCHANGED <<roster, candidates, cg_active, actual_attendance,
                           projected_attendance, projected_concert_attendance>>
    /\ UNCHANGED <<today, cycle, ret, env, pending, outbox>>

\* cycle_from, cycle_to = _determine_concert_cycle(roster, current_nyc_date)
ComputeCycle ==
    /\ pc = "compute_cycle"
    /\ LET c == _determine_concert_cycle(roster, today) IN
       IF c.status = "ok"
       THEN /\ cycle' = [cycle_from |-> c.cycle_from, cycle_to |-> c.cycle_to]
            /\ pc' = IF kind = "consistency" THEN "fetch_concerts" ELSE "open_cg"
            /\ ret' = ret
       ELSE /\ cycle' = cycle
            /\ pc' = "except"
            /\ ret' = c
    /\ UNCHANGED <<today, roster, candidates, cg_active, actual_attendance,
                   projected_attendance, projected_concert_attendance, env, run>>

\* async with await _get_choirgenius() as cg
OpenChoirGenius ==
    /\ pc = "open_cg"
    /\ LET c == _get_choirgenius(vault) IN
       IF c.status = "ok"
       THEN /\ pc' = "gather"
            /\ exc' = exc
       ELSE Propagate(c)
    /\ UNCHANGED <<args, ret, env, pending, outbox>>

\* gather(...): every fetch is issued before any is awaited
IssueGather ==
    /\ pc = "gather"
    /\ pending' = gathered(kind)
    /\ pc' = "awaiting"
    /\ UNCHANGED <<args, ret, env, outbox, exc>>

\* one of the fetches in flight completes, in any order; the first exception
\* leaves the gather
CompleteFetch(f) ==
    /\ pc = "awaiting"
    /\ f \in pending
    /\ LET r == fetch(f) IN
       IF r.status = "ok"
       THEN /\ Deliver(f, TableOfFetch(r))
            /\ pending' = pending \ {f}
            /\ pc' = IF pending \ {f} # {} THEN "awaiting"
                     ELSE IF kind = "consistency" THEN "compute_cycle" ELSE "generate"
            /\ exc' = exc
       ELSE /\ Propagate(r)
            /\ pending' = pending
            /\ UNCHANGED <<roster, candidates, cg_active, actual_attendance,
                           projected_attendance, projected_concert_attendance>>
    /\ UNCHANGED <<today, cycle, ret, env, outbox>>

\* projected_concert_attendance = await cg.get_projected_attendance(..., CONCERT)
FetchConcertAttendance ==
    /\ pc = "fetch_concerts"
    /\ LET r == fetch("projected_concert_attendance") IN
       IF r.status = "ok"
       THEN /\ Deliver("projected_concert_attendance", TableOfFetch(r))
            /\ pc' = "generate"
            /\ exc' = exc
       ELSE /\ Propagate(r)
            /\ UNCHANGED <<roster, candidates, cg_active, actual_attendance,
                           projected_attendance, projected_concert_attendance>>
    /\ UNCHANGED <<today, cycle, ret, env, pending, outbox>>

\* subject, body, worth_sending = generate_*_report(...)
Generate ==
    /\ pc = "generate"
    /\ LET r == CASE kind = "attendance" ->
                       report_generate_attendance_report(actual_attendance,
                           projected_attendance, roster, today, cycle.cycle_to)
                  [] kind = "projected" ->
                       report_generate_projected_attendance_report(projected_attendance,
                           roster, today, cycle.cycle_to)
                  [] kind = "consistency" ->
                       report_generate_consistency_report(roster, candidates, cg_active,
                           projected_concert_attendance, _determine_season(today),
                           cycle.cycle_to)
       IN  /\ ret' = r
           /\ IF r.status = "ok"
              THEN pc' = "decide" /\ exc' = exc
              ELSE Propagate(r)
    /\ UNCHANGED <<args, env, pending, outbox>>

\* if worth_sending or force: await send_email(subject, body, ...)
SendReport ==
    /\ pc = "decide"
    /\ ret.worth_sending \/ force
    /\ outbox' = send_email(outbox, ret.subject, "<body>", report_recipients(kind))
    /\ pc' = "returned"
    /\ UNCHANGED <<args, ret, env, pending, exc>>

SkipReport ==
    /\ pc = "decide"
    /\ ~(ret.worth_sending \/ force)
    /\ pc' = "returned"
    /\ UNCHANGED <<args, ret, env, run>>

\* except CantoriError as e: await send_email("Error generating report", str(e), ERROR_EMAILS)
HandleCantoriError ==
    /\ pc = "except"
    /\ outbox' = send_email(outbox, "Error generating report", ret.msg, ERROR_EMAILS)
    /\ pc' = "returned"
    /\ UNCHANGED <<args, ret, env, pending, exc>>

NextDriver ==
    \/ Trigger
    \/ GetRoster
    \/ ComputeCycle
    \/ OpenChoirGenius
    \/ IssueGather
    \/ \E f \in pending : CompleteFetch(f)
    \/ FetchConcertAttendance
    \/ Generate
    \/ SendReport
    \/ SkipReport
    \/ HandleCantoriError

SpecDriver == InitDriver /\ [][NextDriver]_vars

----------------------------------------------------------------------------
(* Properties of the drivers *)

\* the run is over: the driver returned, or an exception left it
Terminated == pc \in {"returned", "raised"}

\* an email of the run went to the ordinary recipients of the report
ReportSent == \E i \in 1..Len(outbox) : outbox[i].to = report_recipients(kind)

\* the error notifications of the run, as indexes of the outbox
ErrorNotifications ==
    { i \in 1..Len(outbox) :
        outbox[i].to = ERROR_EMAILS /\ outbox[i].subject = "Error generating report" }

\* C2: in a driver run that generated its report without error, the report is
\* sent to the ordinary recipients if and only if worth_sending is true or the
\* run was forced (HTTP route); otherwise no email at all is sent.
C2_SentIffWorthSendingOrForce ==
    (pc = "returned" /\ ret.status = "ok") =>
        /\ ReportSent <=> (ret.worth_sending \/ trigger = "http")
        /\ ~(ret.worth_sending \/ trigger = "http") => outbox = <<>>
        /\ Len(outbox) <= 1

\* a forced run that sends a report that is not worth sending
C2_Witness ==
    /\ pc = "returned"
    /\ ret.status = "ok"
    /\ ~ret.worth_sending
    /\ trigger = "http"
    /\ ReportSent

\* a timer run that generated a report not worth sending, and sent nothing
C2_WitnessSkipped ==
    /\ pc = "returned"
    /\ ret.status = "ok"
    /\ ~ret.worth_sending
    /\ trigger = "timer"
    /\ outbox = <<>>

\* a fatal error ended the run: an exception left the driver, or the
\* CantoriError handler ran
FatalError == pc = "raised" \/ (pc = "returned" /\ ret.status = "CantoriError")

\* the text of the exception that ended the run
ExceptionText == IF pc = "raised" THEN exc.msg ELSE ret.msg

\* C3: in every run in which a fatal error occurs, the ordinary recipients
\* receive nothing and exactly one error notification, carrying the exception
\* text, goes to the maintainer; no run sends both a report and an error
\* notification.
C3_FatalErrorNotifiesMaintainerOnly ==
    /\ FatalError =>
          /\ ~ReportSent
          /\ Cardinality(ErrorNotifications) = 1
          /\ \A i \in ErrorNotifications : outbox[i].body = ExceptionText
    /\ ~(ReportSent /\ ErrorNotifications # {})

\* The part of C3 that holds: a CantoriError is notified once to the
\* maintainer, with its text, and no run sends both kinds of email.
C3_CantoriErrorNotifiesMaintainerOnly ==
    /\ (pc = "returned" /\ ret.status = "CantoriError") =>
          /\ outbox = << [subject |-> "Error generating report", body |-> ret.msg,
                          to |-> ERROR_EMAILS] >>
          /\ ret.msg \in {NoCyclesMsg, NotInSeasonMsg}
    /\ ~(ReportSent /\ ErrorNotifications # {})

\* the run failed on a credential missing from the vault
CredentialMissing ==
    /\ pc = "raised"
    /\ exc.status = "RuntimeError"
    /\ vault # AllSecrets

\* C4: when a credential is missing from the vault the run is fatal and is
\* reported like a domain error: one error notification to the maintainer,
\* nothing to the ordinary recipients.
C4_MissingCredentialNotifiesMaintainer ==
    CredentialMissing => (ErrorNotifications # {} /\ ~ReportSent)

\* the date headers that a parsed table of the run keeps as text columns
KeptAsText ==
    UNION { IF "text_columns" \in DOMAIN t THEN t.text_columns ELSE {} :
            t \in {roster, actual_attendance, projected_attendance,
                   projected_concert_attendance} }

\* C5: a date column header that fails to parse is never kept as a non-date
\* column, and the run it aborts is reported to the maintainer like a
\* CantoriError.
C5_UnparsableDateHeaderIsFatal ==
    /\ KeptAsText = {}
    /\ (pc = "raised" /\ exc.status = "ValueError"
           /\ exc.msg = "time data does not match format") => ErrorNotifications # {}

\* the part of C5 about the roster board alone
C5_RosterHeaderNotSwallowed ==
    "text_columns" \in DOMAIN roster => roster.text_columns = {}

\* the part of C5 about a portal export header that starts with a digit
C5_ExportHeaderErrorNotified ==
    (pc = "raised" /\ exc.status = "ValueError"
        /\ exc.msg = "time data does not match format") => ErrorNotifications # {}

----------------------------------------------------------------------------
(* Properties of the attendance report on tables with singers *)

\* no rehearsal of the cycle has taken place yet
NoRehearsalYet == pc = "attendance_done" /\ actual_attendance.dates = {}

\* C11: when no rehearsal has occurred yet in the cycle (the actual-attendance
\* table has no date columns), generate_attendance_report completes without
\* error, PresentTonight and AbsentTonight are false for every row, and the
\* "This Week" section is omitted from the report body.
C11_NoRehearsalOmitsThisWeek ==
    NoRehearsalYet =>
        /\ ret.status = "ok"
        /\ ret.sets.present_tonight = {}
        /\ ret.sets.absent_tonight = {}
        /\ \A i \in DOMAIN ret.body : ret.body[i] # "This Week"

\* The part of C11 that holds: the report is generated and nobody is present
\* or absent tonight (the body still has its "This Week (None)" section).
C11_NoRehearsalNobodyPresentOrAbsent ==
    NoRehearsalYet =>
        /\ ret.status = "ok"
        /\ ret.sets.present_tonight = {}
        /\ ret.sets.absent_tonight = {}
        /\ ret.this_week.heading = NoDate
        /\ \A v \in DOMAIN ret.this_week.subtotals :
              ret.this_week.subtotals[v] = [Present |-> 0, Absent |-> 0]

\* C12: after _fill_and_sort, every row of every joined table (the
\* roster/attendance joins and the consistency join that includes the portal
\* membership table) has a non-missing color, sort_key and Email.
C12_FilledColumnsNeverMissing ==
    (pc \in {"attendance_done", "projected_done", "consistency_done"} /\ ret.status = "ok") =>
        \A j \in ret.join : j.color # NA /\ j.sort_key # NaN /\ j.Email # NA

\* The part of C12 that holds, on every joined table: color and sort_key are
\* never missing, color falls back to "black" and sort_key to +infinity; and on
\* the roster/attendance joins a missing Email becomes the placeholder.
C12_ColorAndSortKeyFilled ==
    (pc \in {"attendance_done", "projected_done", "consistency_done"} /\ ret.status = "ok") =>
        \A j \in ret.join :
            /\ j.color # NA /\ j.sort_key # NaN
            /\ (j.Name \notin Names(roster)) => (j.color = "black" /\ j.sort_key = Inf)
            /\ pc # "consistency_done" =>
                  /\ j.Email # NA
                  /\ (j.Name \notin Names(roster) \/ roster.rows[j.Name].Email = NA)
                         => j.Email = "email-is-missing"

\* alphabetical order of the singer names
NameLeq(a, b) == a = b \/ (a = "Alice" /\ b = "Bob")

\* the singer has no voice-part sort key on the roster
NoSortKey(n) == n \notin Names(roster) \/ roster.rows[n].sort_key = NaN

\* C13: the table returned by _fill_and_sort is ordered by (sort_key
\* ascending, Name ascending), so every singer with no voice-part sort key
\* comes after every singer that has one.
C13_SortedBySortKeyThenName ==
    Generated =>
        \A i, k \in DOMAIN ret.table :
            i < k =>
                /\ \/ ret.table[i].sort_key < ret.table[k].sort_key
                   \/ /\ ret.table[i].sort_key = ret.table[k].sort_key
                      /\ NameLeq(ret.table[i].Name, ret.table[k].Name)
                /\ ~(NoSortKey(ret.table[i].Name) /\ ~NoSortKey(ret.table[k].Name))

\* Alice, unknown to the roster, is listed after Bob, a bass of the roster
C13_Witness ==
    /\ Generated
    /\ Len(ret.table) = 2
    /\ ret.table[1].Name = "Bob" /\ ret.table[1].sort_key = 2
    /\ ret.table[2].Name = "Alice" /\ ret.table[2].sort_key = Inf

\* both singers have a sort key: the soprano comes before the bass
C13_WitnessBySection ==
    /\ Generated
    /\ Len(ret.table) = 2
    /\ ret.table[1].Name = "Alice" /\ ret.table[1].sort_key = 1
    /\ ret.table[2].Name = "Bob" /\ ret.table[2].sort_key = 2

\* how many of the four classes of the attendance report hold a row
ClassesOf(j) ==
    Cardinality({ k \in {"singing_this_cycle", "other_cycles_yes", "other_cycles_maybe", "gone"} :
                    j \in ret.sets[k] })

\* C14: in generate_attendance_report, every joined row that is on the roster
\* (projected indicator != right_only) is in exactly one of SingingThisCycle,
\* OtherCyclesYes, OtherCyclesMaybe, Gone; the four sets are pairwise disjoint
\* and together cover all on-roster rows.
C14_FourClassesPartitionRoster ==
    AttendanceGenerated =>
        /\ \A j \in ret.join : ClassesOf(j) <= 1
        /\ \A j \in ret.join : j.projected # "right_only" => ClassesOf(j) = 1
        /\ \A n \in Names(roster) : \E j \in RowsOf(n) : ClassesOf(j) = 1

\* Alice sits this cycle out and sings a later one, Bob sings this cycle
C14_Witness ==
    /\ AttendanceGenerated
    /\ \E j \in ret.sets.other_cycles_yes : j.Name = "Alice"
    /\ \E j \in ret.sets.singing_this_cycle : j.Name = "Bob"

\* Alice sings this cycle and a later one: she is SingingThisCycle only
C14_WitnessBothCycles ==
    /\ AttendanceGenerated
    /\ "Alice" \in Names(roster)
    /\ roster.rows["Alice"].status[CycleEnd] = "Partial"
    /\ roster.rows["Alice"].status[LaterConcert] = "Yes"
    /\ \E j \in ret.sets.singing_this_cycle : j.Name = "Alice"

\* C15: a singer who appears only in the projected and/or actual attendance
\* tables and never on the roster is never classified as Gone by
\* generate_attendance_report.
C15_OffRosterSingerNeverGone ==
    AttendanceGenerated => \A j \in ret.sets.gone : j.Name \in Names(roster)

\* The part of C15 that holds: a singer of the projected table who is not on
\* the roster (indicator right_only) is never Gone; a singer of the actual
\* table alone has no "projected" indicator and is Gone.
C15_ProjectedSingerNeverGone ==
    AttendanceGenerated =>
        \A j \in ret.join :
            j.Name \notin Names(roster) =>
                (j \in ret.sets.gone <=> j.Name \notin Names(projected_attendance))

\* the participation that a roster status stands for
SingsWith(status) == status = "Yes" \/ status = "Partial"

\* C16: whether a singer is SingingThisCycle depends only on the singer's
\* roster Status for the cycle_to column: in both attendance reports, whatever
\* the actual and projected marks of the run, a row is singing this cycle if
\* and only if the singer is on the roster with the status Yes or Partial for
\* cycle_to, so two runs with the same status classify the singer identically.
C16_SingingDependsOnStatusOnly ==
    Generated =>
        \A j \in ret.join :
            j \in ret.sets.singing_this_cycle <=>
                /\ j.Name \in Names(roster)
                /\ SingsWith(roster.rows[j.Name].status[cycle.cycle_to])

\* Alice is on the roster with Yes, missed every past rehearsal and marked
\* herself absent from every future one: she is singing this cycle
C16_Witness ==
    /\ AttendanceGenerated
    /\ \E j \in ret.sets.singing_this_cycle :
          /\ j.Name = "Alice"
          /\ actual_attendance.dates # {} /\ j.Attended = 0
          /\ j.Absences_projected > 0

\* Alice is on the roster with No and attended every rehearsal: not singing
C16_WitnessNotSinging ==
    /\ AttendanceGenerated
    /\ \E j \in ret.join \ ret.sets.singing_this_cycle :
          /\ j.Name = "Alice" /\ j.status[cycle.cycle_to] = "No"
          /\ j.Attended = MaxPast

\* Alice is on the roster with Yes and unknown to the projected grid
C16_WitnessProjected ==
    /\ pc = "projected_done" /\ ret.status = "ok"
    /\ \E j \in ret.sets.singing_this_cycle : j.Name = "Alice" /\ j.projected = "left_only"

\* the future-rehearsal columns of the projected table: those after the most
\* recent past rehearsal, all of them when there is none
FutureColumns ==
    { c \in projected_attendance.dates : c > MostRecentRehearsal }

\* the future-rehearsal columns that singer n explicitly marked 0
MarkedAbsentColumns(n) ==
    { c \in FutureColumns : projected_attendance.rows[n][c] = 0 }

\* C17: for every singer of the projected table, Absences_projected equals the
\* number of future-rehearsal columns whose mark is explicitly 0; columns that
\* are unmarked (NA) or marked 1 never count, e.g. marks [0, NA, 1, 0] give 2.
\* (A singer without a row in the projected table has no Absences_projected.)
C17_ProjectedAbsencesCountExplicitZeros ==
    AttendanceGenerated =>
        \A j \in ret.join :
            IF j.Name \in Names(projected_attendance)
            THEN j.Absences_projected = Cardinality(MarkedAbsentColumns(j.Name))
            ELSE j.Absences_projected = NaN

\* one past rehearsal, and Alice's marks for the next four rehearsals are
\* [0, NA, 1, 0] (and 1 for any later one): her Absences_projected is 2
C17_Witness ==
    /\ AttendanceGenerated
    /\ MostRecentRehearsal = MinOf(Dates)
    /\ { MinOf(Dates) + i : i \in 1..4 } \subseteq FutureColumns
    /\ \A c \in FutureColumns :
          c > MinOf(Dates) + 4 => projected_attendance.rows["Alice"][c] = 1
    /\ "Alice" \in Names(projected_attendance)
    /\ projected_attendance.rows["Alice"][MinOf(Dates) + 1] = 0
    /\ projected_attendance.rows["Alice"][MinOf(Dates) + 2] = NaN
    /\ projected_attendance.rows["Alice"][MinOf(Dates) + 3] = 1
    /\ projected_attendance.rows["Alice"][MinOf(Dates) + 4] = 0
    /\ \E j \in RowsOf("Alice") : j.Absences_projected = 2

\* the past rehearsals that singer n was not marked present at: the number of
\* past rehearsal columns minus the sum of the marks (1 for present)
MissedRehearsals(n) ==
    Cardinality(actual_attendance.dates)
        - Cardinality({ c \in actual_attendance.dates : actual_attendance.rows[n][c] = 1 })

\* the singer has a row in both attendance tables
InBothGrids(n) == n \in Names(actual_attendance) /\ n \in Names(projected_attendance)

\* C18: for every joined row, Absences_total = Absences_actual +
\* Absences_projected, where Absences_actual = (number of past rehearsal
\* columns) - (sum of attendance marks), and a singer is listed in the
\* absence-totals table exactly when SingingThisCycle holds and
\* Absences_total >= 3.  (The row of a singer missing from one of the two
\* attendance tables has no Absences_total and is not listed.)
C18_AbsenceTotals ==
    AttendanceGenerated =>
        \A j \in ret.join :
            /\ j.Name \in Names(actual_attendance) =>
                  j.Absences_actual = MissedRehearsals(j.Name)
            /\ IF InBothGrids(j.Name)
               THEN j.Absences_total =
                        MissedRehearsals(j.Name) + Cardinality(MarkedAbsentColumns(j.Name))
               ELSE j.Absences_total = NaN
            /\ j \in ret.sets.relevant_absences <=>
                  /\ j \in ret.sets.singing_this_cycle
                  /\ InBothGrids(j.Name)
                  /\ MissedRehearsals(j.Name) + Cardinality(MarkedAbsentColumns(j.Name)) >= 3

\* Alice sings this cycle, missed 1 past rehearsal and marked no future
\* absence: her total is 1 and she is not listed
C18_Witness ==
    /\ AttendanceGenerated
    /\ \E j \in ret.sets.singing_this_cycle \ ret.sets.relevant_absences :
          /\ j.Name = "Alice"
          /\ j.Absences_actual = 1 /\ j.Absences_projected = 0 /\ j.Absences_total = 1

\* Alice sings this cycle, missed 2 past rehearsals and marked 1 future
\* absence: her total is 3 and she is listed
C18_WitnessListed ==
    /\ AttendanceGenerated
    /\ \E j \in ret.sets.relevant_absences :
          /\ j.Name = "Alice"
          /\ j.Absences_actual = 2 /\ j.Absences_projected = 1 /\ j.Absences_total = 3

\* Alice has 3 absences and is not singing this cycle: not listed
C18_WitnessNotSinging ==
    /\ AttendanceGenerated
    /\ \E j \in ret.join \ ret.sets.relevant_absences :
          j.Name = "Alice" /\ j.Absences_total = 3

\* the mark of singer n for the most recent rehearsal is 1
MarkedPresentTonight(n) ==
    /\ n \in Names(actual_attendance)
    /\ actual_attendance.rows[n][MostRecentRehearsal] = 1

\* the singers singing this cycle that have a given voice part
SingingIn(v) == { j \in ret.sets.singing_this_cycle : j.Voice_Part = v }

C19_WitnessPresent ==
    /\ AttendanceGenerated /\ MostRecentRehearsal # NoDate
    /\ \E j \in ret.sets.present_tonight \cap ret.sets.singing_this_cycle : j.Name = "Alice"
    /\ ret.this_week.subtotals["Soprano"] = [Present |-> 1, Absent |-> 0]

\* the most recent rehearsal is not a column of the projected table: the
\* lookup of its "_actual" column raises KeyError
C19_WitnessKeyError ==
    /\ pc = "attendance_done" /\ ret.status = "KeyError"
    /\ MostRecentRehearsal # NoDate
    /\ MostRecentRehearsal \notin projected_attendance.dates

----------------------------------------------------------------------------
(* Properties of the consistency report: portal members missing from the roster *)

\* the rows of a portal member in the set of members missing from the roster
MissingRowsOf(w) ==
    { j \in ret.sets.cg_missing_from_roster : j.whole_name = w \/ j.Name = w }

\* C20: in generate_consistency_report, every portal-active member who is not
\* on the roster is in PortalMissingFromRoster, whether they have no audition
\* record (portal-only row, right_only) or have an audition record but no
\* roster row, and no portal-active member who is on the roster is in that set.
C20_PortalMembersMissingFromRoster ==
    (pc = "consistency_done" /\ ret.status = "ok") =>
        \A w \in Names(cg_active) :
            IF w \in Names(roster)
            THEN MissingRowsOf(w) = {}
            ELSE \E j \in MissingRowsOf(w) : j.whole_name = w

\* Bob is active on the portal, not on the roster and has no audition record:
\* his row is right_only on the portal join and he is in the set
C20_Witness ==
    /\ pc = "consistency_done" /\ ret.status = "ok"
    /\ "Bob" \in Names(cg_active) \ (Names(roster) \cup Names(candidates))
    /\ \E j \in ret.sets.cg_missing_from_roster : j.whole_name = "Bob" /\ j.cg = "right_only"

\* Bob is active on the portal, auditioned and is not on the roster
C20_WitnessAuditioned ==
    /\ pc = "consistency_done" /\ ret.status = "ok"
    /\ "Bob" \in (Names(cg_active) \cap Names(candidates)) \ Names(roster)
    /\ \E j \in ret.sets.cg_missing_from_roster :
          j.whole_name = "Bob" /\ j.cg = "both" /\ j.audition = "right_only"

\* Alice is active on the portal and on the roster: not in the set
C20_WitnessOnRoster ==
    /\ pc = "consistency_done" /\ ret.status = "ok"
    /\ "Alice" \in Names(cg_active) \cap Names(roster)
    /\ ret.sets.cg_missing_from_roster = {}

----------------------------------------------------------------------------
(* Properties of the consistency report: roster singers missing from the portal *)

ConsistencyGenerated == pc = "consistency_done" /\ ret.status = "ok"

\* C21: in generate_consistency_report, a row is in RosterMissingFromPortal
\* iff its roster Status for cycle_to is Yes, Partial or Maybe and it has no
\* match in the portal active-member table (left_only on the portal join);
\* audition-only candidates and singers whose status is No or unset are never
\* in the set.
C21_RosterMissingFromPortal ==
    ConsistencyGenerated =>
        \A j \in ret.join :
            j \in ret.sets.roster_missing_from_cg <=>
                /\ j.Name \in Names(roster)
                /\ roster.rows[j.Name].status[cycle.cycle_to] \in {"Yes", "Partial", "Maybe"}
                /\ j.Name \notin Names(cg_active)
                /\ j.cg = "left_only"

\* Alice is a "maybe" of the roster and unknown to the portal: she is in the set
C21_Witness ==
    /\ ConsistencyGenerated
    /\ \E j \in ret.sets.roster_missing_from_cg :
          j.Name = "Alice" /\ j.status[cycle.cycle_to] = "Maybe" /\ j.cg = "left_only"

\* Alice auditioned, is not on the roster nor in the portal: not in the set
C21_WitnessCandidate ==
    /\ ConsistencyGenerated
    /\ "Alice" \in Names(candidates) \ (Names(roster) \cup Names(cg_active))
    /\ ret.sets.roster_missing_from_cg = {}
    /\ \E j \in ret.join : j.Name = "Alice" /\ j.cg = "left_only"

----------------------------------------------------------------------------
(* Properties of the mismatch tables and of the lists of singers *)

MismatchTables == { ret.email_mismatch, ret.voice_mismatch }

\* C22: format_mismatch_table reports exactly the rows that are present in both
\* systems and whose roster-side field differs from the portal-side field, and
\* returns "None" when there is no such row.  Stated here for the part that
\* fails: every row of a mismatch table shows two different values.
C22_MismatchRowsDiffer ==
    ConsistencyGenerated =>
        \A t \in MismatchTables : \A row \in t.rows : row[2] # row[3]

\* C22, the rows reported: a singer known to one system only is never in a
\* mismatch table, a singer of both systems whose two values are present and
\* different always is, and the table is "None" exactly when it has no row.
C22_OnlySingersOfBothSystems ==
    ConsistencyGenerated =>
        /\ \A t \in MismatchTables :
              /\ t.text = "None" <=> t.rows = {}
              /\ \A row \in t.rows :
                    row[1] \in (Names(roster) \cup Names(candidates)) \cap Names(cg_active)
        /\ \A j \in ret.join :
              /\ j.cg = "both" /\ j.Email # j.primary_email
                    => <<j.Name, j.Email, j.primary_email>> \in ret.email_mismatch.rows
              /\ j.cg = "both" /\ j.Voice_Part # j.voice_part
                    => <<j.Name, j.Voice_Part, j.voice_part>> \in ret.voice_mismatch.rows

\* C22, the empty list: format_singers_indented of no singer is "None" in the
\* indentation paragraph.
C22_EmptySetIsIndentedNone ==
    ConsistencyGenerated =>
        \A k \in DOMAIN ret.sets :
            ret.sets[k] = {} <=>
                ret.body[k] = [ tag |-> "p", style |-> "margin-left: 1.5rem",
                                line |-> [text |-> "None", links |-> <<>>] ]

\* Alice has no email address in either system and is in the email mismatch table
C22_WitnessBothMissing ==
    /\ ConsistencyGenerated
    /\ <<"Alice", NA, NA>> \in ret.email_mismatch.rows

\* Alice is known to the portal alone, with an email address, and no table has a row
C22_WitnessOneSystem ==
    /\ ConsistencyGenerated
    /\ "Alice" \in Names(cg_active) \ (Names(roster) \cup Names(candidates))
    /\ cg_active.rows["Alice"].primary_email = "a@x"
    /\ \A t \in MismatchTables : t.text = "None"

----------------------------------------------------------------------------
(* Properties of the concert-marking sets of the consistency report *)

\* the singer of row j has a row in the concert grid, the grid has a concert,
\* and every concert of it carries the mark m
MarkedEveryConcert(j, m) ==
    /\ j.Name \in Names(projected_concert_attendance)
    /\ projected_concert_attendance.dates # {}
    /\ \A c \in projected_concert_attendance.dates :
          projected_concert_attendance.rows[j.Name][c] = m

RosterStatus(j) ==
    IF j.Name \in Names(roster) THEN roster.rows[j.Name].status[cycle.cycle_to] ELSE NA

ConcertSetsAsStated(j) ==
    /\ j \in ret.sets.marked_no_but_might_sing <=>
          MarkedEveryConcert(j, 0) /\ RosterStatus(j) \in {"Yes", "Partial", "Maybe"}
    /\ j \in ret.sets.marked_yes_but_not_singing <=>
          MarkedEveryConcert(j, 1) /\ RosterStatus(j) \in {"No", "Maybe"}

\* C23: in generate_consistency_report, a singer is in MarkedNoButMightSing iff
\* they explicitly marked every concert of the cycle absent and their roster
\* Status for cycle_to is Yes, Partial or Maybe; and a singer is in
\* MarkedYesButNotSinging iff they explicitly marked every concert present and
\* their roster Status for cycle_to is No or Maybe.
C23_MarkedNoAndMarkedYesSets ==
    ConsistencyGenerated => \A j \in ret.join : ConcertSetsAsStated(j)

\* The same for a concert grid with at least one concert column.
C23_WithConcerts ==
    (ConsistencyGenerated /\ projected_concert_attendance.dates # {}) =>
        \A j \in ret.join : ConcertSetsAsStated(j)

\* Alice sings, is in a grid without concert column, and is listed as marked "no"
C23_WitnessNoConcert ==
    /\ ConsistencyGenerated
    /\ projected_concert_attendance.dates = {}
    /\ \E j \in ret.sets.marked_no_but_might_sing : j.Name = "Alice" /\ RosterStatus(j) = "Yes"

\* Alice marked both concerts of the cycle present and her status is No
C23_WitnessWithConcerts ==
    /\ ConsistencyGenerated
    /\ Cardinality(projected_concert_attendance.dates) = 2
    /\ \E j \in ret.sets.marked_yes_but_not_singing :
          j.Name = "Alice" /\ MarkedEveryConcert(j, 1) /\ RosterStatus(j) = "No"

ConcertMarkingSets ==
    ret.sets.marked_no_but_might_sing \cup ret.sets.marked_partial_but_not_partial
        \cup ret.sets.marked_yes_but_not_singing
        \cup ret.sets.partial_roster_but_marked_nonpartial

\* the singer of row j gave no 0 and no 1 mark: no row in the grid, or a row
\* whose concert marks are all missing
MarkedNothing(j) ==
    j.Name \in Names(projected_concert_attendance) =>
        \A c \in projected_concert_attendance.dates :
            projected_concert_attendance.rows[j.Name][c] = NaN

\* C26: in generate_consistency_report, a singer who has not explicitly marked
\* any concert (no 0 and no 1 mark) is in none of the four concert-marking
\* discrepancy sets, for every number of concert columns including zero.
C26_UnmarkedSingerInNoConcertSet ==
    ConsistencyGenerated =>
        \A j \in ret.join : MarkedNothing(j) => j \notin ConcertMarkingSets

\* The same for a concert grid with at least one concert column.
C26_WithConcerts ==
    (ConsistencyGenerated /\ projected_concert_attendance.dates # {}) =>
        \A j \in ret.join : MarkedNothing(j) => j \notin ConcertMarkingSets

\* Alice's status is Maybe, the grid has no concert column, and she is listed
\* both as marked "no" and as marked "yes"
C26_WitnessNoConcert ==
    /\ ConsistencyGenerated
    /\ projected_concert_attendance.dates = {}
    /\ \E j \in ret.sets.marked_no_but_might_sing \cap ret.sets.marked_yes_but_not_singing :
          j.Name = "Alice" /\ MarkedNothing(j)

\* Alice sings and left both concerts of the grid unmarked: she is in no set
C26_WitnessUnmarked ==
    /\ ConsistencyGenerated
    /\ Cardinality(projected_concert_attendance.dates) = 2
    /\ \E j \in ret.join :
          /\ j.Name = "Alice" /\ j.Name \in Names(projected_concert_attendance)
          /\ RosterStatus(j) = "Yes" /\ MarkedNothing(j) /\ j \notin ConcertMarkingSets

----------------------------------------------------------------------------
(* Properties of the joined table of the consistency report *)

PortalAndConcertsOnly(n) ==
    /\ n \in Names(cg_active) \cap Names(projected_concert_attendance)
    /\ n \notin Names(roster) \cup Names(candidates)

\* C27: given input tables in which each singer name occurs at most once, the
\* joined table built by generate_consistency_report has at most one row per
\* singer name after the fill; a singer known only to the portal and to the
\* concert-attendance table has a single row, with the portal indicator and
\* the concert marks.
C27_OneRowPerSinger ==
    ConsistencyGenerated =>
        /\ \A j1, j2 \in ret.join : j1.Name = j2.Name => j1 = j2
        /\ \A j \in ret.join :
              PortalAndConcertsOnly(j.Name) =>
                  j.cg = "right_only" /\ j.concert_attendance = "both"

\* Singers with a row on the roster or in the audition table have one row.
C27_OneRowPerBoardSinger ==
    ConsistencyGenerated =>
        \A j1, j2 \in ret.join :
            (j1.Name = j2.Name /\ j1.Name \in Names(roster) \cup Names(candidates)) => j1 = j2

\* Alice is in the portal and in the concert grid only, and has two rows: one
\* with the portal indicator and no marks, one with the marks and no portal data
C27_WitnessTwoRows ==
    /\ ConsistencyGenerated
    /\ PortalAndConcertsOnly("Alice")
    /\ \E j1, j2 \in ret.join :
          /\ j1.Name = "Alice" /\ j1.cg = "right_only" /\ j1.Concerts_Marked_Absent = NaN
          /\ j2.Name = "Alice" /\ j2.cg = NA /\ j2.concert_attendance = "right_only"

----------------------------------------------------------------------------
(* Properties of the concurrent fetches of the drivers *)

\* the table a fetch is delivered into
Fetched(f) ==
    CASE f = "roster" -> roster
      [] f = "candidates" -> candidates
      [] f = "cg_active" -> cg_active
      [] f = "actual_attendance" -> actual_attendance
      [] f = "projected_attendance" -> projected_attendance
      [] f = "projected_concert_attendance" -> projected_concert_attendance

\* the tables the generator of a driver reads
InputsOf(k) ==
    CASE k = "attendance"  -> {"roster", "actual_attendance", "projected_attendance"}
      [] k = "projected"   -> {"roster", "projected_attendance"}
      [] k = "consistency" -> {"roster", "candidates", "cg_active",
                               "projected_concert_attendance"}

\* fetch f has completed: its table has been delivered
Completed(f) == fetch(f).status = "ok" /\ Fetched(f) = TableOfFetch(fetch(f))

\* the report of the run as a function of what the external systems hold
ReportOfSystems ==
    LET r == TableOfFetch(get_roster(vault, board))
        c == _determine_concert_cycle(r, today)
        export(events, to) ==
            TableOfFetch(_parse_csv_export(portal,
                             export_headers(portal, events, c.cycle_from, to)))
    IN  CASE kind = "attendance" ->
                report_generate_attendance_report(
                    export(portal.rehearsals, rehearsals_to(hour, today)),
                    export(portal.rehearsals, c.cycle_to), r, today, c.cycle_to)
          [] kind = "projected" ->
                report_generate_projected_attendance_report(
                    export(portal.rehearsals, c.cycle_to), r, today, c.cycle_to)
          [] kind = "consistency" ->
                report_generate_consistency_report(
                    r, TableOfFetch(get_audition_candidates(vault, board)),
                    get_active(portal), export(portal.concerts, c.cycle_to),
                    _determine_season(today), c.cycle_to)

\* C24: in every driver run, for every order in which the concurrently issued
\* fetches complete, report generation starts only after all of its fetches
\* have completed, and its result does not depend on the completion order; in
\* the consistency driver the concert-attendance fetch is issued only after the
\* roster fetch has completed and the cycle window has been derived from it.
C24_GenerationAfterAllFetches ==
    /\ pc = "generate" => pending = {} /\ \A f \in InputsOf(kind) : Completed(f)
    /\ (pc \in {"decide", "returned"} /\ ret.status = "ok") => ret = ReportOfSystems
    /\ pc = "fetch_concerts" =>
          /\ pending = {}
          /\ Completed("roster")
          /\ cycle = [cycle_from |-> _determine_concert_cycle(roster, today).cycle_from,
                      cycle_to |-> _determine_concert_cycle(roster, today).cycle_to]

\* the attendance driver is about to generate, and the two exports of its
\* gather, which differ, have both been delivered
C24_Witness ==
    /\ pc = "generate"
    /\ kind = "attendance"
    /\ actual_attendance # projected_attendance
    /\ actual_attendance.dates # {}

\* the fetch issued first is the one still in flight: the forecast export
\* completed before the attendance export
C24_WitnessLastFirst ==
    /\ pc = "awaiting"
    /\ kind = "attendance"
    /\ pending = {"actual_attendance"}
    /\ Completed("projected_attendance")

\* the consistency driver awaits the roster after the two other fetches
C24_WitnessRosterLast ==
    /\ pc = "awaiting"
    /\ kind = "consistency"
    /\ pending = {"roster"}

\* the consistency driver issues the concert fetch with a cycle of the roster
C24_WitnessConcertFetch ==
    /\ pc = "fetch_concerts"
    /\ cycle.cycle_to \in roster.dates

----------------------------------------------------------------------------
(* Properties of the range of the actual-attendance fetch *)

\* the last day of the fetch range as stated: yesterday before 19:00, today from
\* 19:00 on
StatedRehearsalsTo == IF hour < 19 THEN today - 1 ELSE today

AttendanceFetched == kind = "attendance" /\ pc = "generate"

\* the days the export fetched has a column for, whether the header was parsed
\* as a date or kept as text
ExportedDays(t) == t.dates \cup { h.date : h \in t.text_columns }

\* C25: send_attendance_report excludes today's rehearsal from the
\* actual-attendance fetch until 7PM New York time: when the hour is before 19
\* the fetch range ends yesterday, and from 19:00 on it ends today.
C25_FetchRangeEndsTodayFrom19 ==
    AttendanceFetched =>
        ExportedDays(actual_attendance) =
            { d \in portal.rehearsals : cycle.cycle_from <= d /\ d <= StatedRehearsalsTo }

\* The same for the hours other than 19.
C25_FetchRangeOutsideHour19 ==
    (AttendanceFetched /\ hour # 19) =>
        ExportedDays(actual_attendance) =
            { d \in portal.rehearsals : cycle.cycle_from <= d /\ d <= StatedRehearsalsTo }

\* at 19:xx on a rehearsal day the export fetched does not have today's column
C25_WitnessHour19 ==
    /\ AttendanceFetched
    /\ hour = 19
    /\ today \in portal.rehearsals
    /\ today \notin ExportedDays(actual_attendance)

\* at 20:xx it has
C25_WitnessHour20 ==
    /\ AttendanceFetched
    /\ hour = 20
    /\ today \in actual_attendance.dates

----------------------------------------------------------------------------
(* Properties of the timer triggers *)

AllFetches ==
    {"roster", "candidates", "cg_active", "actual_attendance", "projected_attendance",
     "projected_concert_attendance"}

\* C30: when a scheduled timer trigger fires with past_due set, the trigger
\* returns without running its report: no external fetch is issued and no
\* email, report or error notification, is sent in that invocation; only the
\* HTTP routes and the timer firings that are not past due run a report.
C30_PastDueTimerRunsNothing ==
    /\ trigger = "timer_past_due" =>
          /\ pc \in {"triggered", "returned"}
          /\ pending = {}
          /\ \A f \in AllFetches : Fetched(f) = EmptyTable
          /\ cycle = NoCycle
          /\ ret = NoReturn
          /\ exc = NoReturn
          /\ outbox = <<>>
    /\ pc \notin {"triggered", "returned"} => trigger \in {"http", "timer"}

\* the past-due timer has returned
C30_Witness ==
    /\ trigger = "timer_past_due"
    /\ pc = "returned"
    /\ outbox = <<>>

\* a timer firing on time has sent its report
C30_WitnessOnTime ==
    /\ trigger = "timer"
    /\ pc = "returned"
    /\ ReportSent

----------------------------------------------------------------------------
(* Properties of the cycle returned by _determine_concert_cycle *)

CycleReturned == pc = "cycle_done" /\ ret.status = "ok"

\* C29: whenever _determine_concert_cycle returns (cycle_from, cycle_to),
\* cycle_to is the earliest roster concert date on or after today, and
\* cycle_from is September 1 of the first concert's year for the first cycle
\* and the day after the preceding concert date for every other cycle.
C29_EarliestConcertOnOrAfterToday ==
    CycleReturned =>
        LET earlier == { d \in roster.dates : d < ret.cycle_to } IN
        /\ ret.cycle_to \in roster.dates
        /\ today <= ret.cycle_to
        /\ \A d \in roster.dates : today <= d => ret.cycle_to <= d
        /\ ret.cycle_from = IF earlier = {}
                            THEN Sep1(YearOf(MinOf(roster.dates)))
                            ELSE MaxOf(earlier) + 1

\* the first cycle of a roster with several concerts, from September 1
C29_Witness ==
    /\ CycleReturned
    /\ Cardinality(roster.dates) >= 2
    /\ ret.cycle_to = MinOf(roster.dates)
    /\ ret.cycle_from = Sep1(YearOf(ret.cycle_to))
    /\ today < ret.cycle_to

\* the third cycle, the day after the second concert
C29_WitnessLaterCycle ==
    /\ CycleReturned
    /\ Cardinality({ d \in roster.dates : d < ret.cycle_to }) = 2
    /\ today = ret.cycle_from
    /\ today < ret.cycle_to

----------------------------------------------------------------------------
(* member_nags.py: generate_member_nags *)

\* line 16: the date columns of the join, those of the roster (a status per
\* concert) and those of the forecast grid (a mark per rehearsal)
date_cols_of(r, projected) == r.dates \cup projected.dates

\* pandas.isna(row[d]) for a date column d of the join
isna_cell(row, d) ==
    IF d \in DOMAIN row.status THEN row.status[d] = NA ELSE row.marks_projected[d] = NaN

\* lines 54-57: format_unmarked_dates, the bullets of the list in order
format_unmarked_dates(row, date_cols) ==
    [ tag |-> "ul", items |-> Sorted({ d \in date_cols : isna_cell(row, d) }) ]

\* line 15 and the mask of line 19 on one row
has_unmarked_rehearsals(row, cycle_to, date_cols) ==
    /\ singing_this_cycle(row, cycle_to)
    /\ \E d \in date_cols : isna_cell(row, d)

\* str.split()[0] on the singer names of the model, which have one word
first_name_of(name) == name

\* The overlapping date columns of a merge are renamed with suffixes, and
\* join[cycle_to] raises KeyError when cycle_to is no column of the join.
nags_lookup_fails(projected, r, cycle_to) ==
    cycle_to \notin r.dates \/ cycle_to \in projected.dates

\* lines 8-51: the emails yielded, in the order of the sorted join
generate_member_nags(projected, r, cycle_to) ==
    IF nags_lookup_fails(projected, r, cycle_to)
    THEN Raise("KeyError", "column")
    ELSE
    LET table == _fill_and_sort(merge_roster_projected(r, projected))
        date_cols == { d \in date_cols_of(r, projected) :
                         ~(d \in r.dates /\ d \in projected.dates) }
        nagged(row) == has_unmarked_rehearsals(row, cycle_to, date_cols)
        rows == SelectSeq(table, nagged)
    IN  [ status |-> "ok",
          join |-> Rows(table),
          emails |-> [ i \in DOMAIN rows |->
              [ subject |-> <<first_name_of(rows[i].Name),
                              ", please mark your Cantori attendance">>,
                body |-> [ dear |-> first_name_of(rows[i].Name),
                           through |-> cycle_to,
                           unconfirmed |-> format_unmarked_dates(rows[i], date_cols) ],
                to |-> <<rows[i].Email>>,
                cc |-> <<"attendance@cantorinewyork.com",
                         "richard.berg@cantorinewyork.com">> ] ] ]

----------------------------------------------------------------------------
(* Specification of generate_member_nags on tables with singers *)

InitNags ==
    /\ pc = "nags_args"
    /\ today = MinOf(Dates)
    /\ cycle = [cycle_from |-> MinOf(Dates), cycle_to |-> CycleEnd]
    /\ \E a \in AtMostOne({ roster_item([d \in {CycleEnd, LaterConcert} |->
                                            IF d = CycleEnd THEN s ELSE o],
                                        "a@x", "Soprano") :
                               s \in Statuses, o \in {"Yes", "Maybe", NA} }),
          b \in AtMostOne({ roster_item([d \in {CycleEnd, LaterConcert} |-> "Yes"],
                                        "b@x", "Bass") }) :
          roster = TableOf({CycleEnd, LaterConcert}, a, b)
    /\ candidates = EmptyTable
    /\ cg_active = EmptyTable
    /\ actual_attendance = EmptyTable
    /\ \E from \in Dates \cup {CycleEnd} :
          \E a \in AtMostOne([DaysFrom(from) -> Marks]),
             b \in AtMostOne({ [d \in DaysFrom(from) |-> 1],
                               [d \in DaysFrom(from) |-> NaN] }) :
             projected_attendance = TableOf(DaysFrom(from), a, b)
    /\ projected_concert_attendance = EmptyTable
    /\ ret = NoReturn
    /\ NoDriver

GenerateMemberNags ==
    /\ pc = "nags_args"
    /\ pc' = "nags_done"
    /\ ret' = generate_member_nags(projected_attendance, roster, cycle.cycle_to)
    /\ UNCHANGED <<args, env, run>>

NextNags == GenerateMemberNags

SpecNags == InitNags /\ [][NextNags]_vars

----------------------------------------------------------------------------
(* Properties of the reminders to the singers *)

NagsGenerated == pc = "nags_done" /\ ret.status = "ok"

\* the emails written to singer n, as indexes of the returned sequence
NagsTo(n) == { i \in DOMAIN ret.emails : ret.emails[i].body.dear = n }

SingsThisCycle(n) ==
    n \in Names(roster) /\ roster.rows[n].status[cycle.cycle_to] \in {"Yes", "Partial"}

\* the rehearsal dates for which singer n has no attendance mark
UnmarkedRehearsals(n) ==
    { d \in projected_attendance.dates :
        n \notin Names(projected_attendance) \/ projected_attendance.rows[n][d] = NaN }

NagsAsStated(n) ==
    /\ Cardinality(NagsTo(n)) =
          IF SingsThisCycle(n) /\ UnmarkedRehearsals(n) # {} THEN 1 ELSE 0
    /\ \A i \in NagsTo(n) :
          /\ ret.emails[i].to = <<roster.rows[n].Email>>
          /\ ret.emails[i].body.unconfirmed.items = Sorted(UnmarkedRehearsals(n))

\* C28: generate_member_nags yields exactly one email per singer who is
\* singing this cycle (Status[cycle_to] is Yes or Partial) and has at least one
\* rehearsal date with no attendance mark, addressed to that singer and listing
\* only that singer's unmarked rehearsal dates in ascending order; a singer
\* whose rehearsal dates are all marked, or who is not singing this cycle, gets
\* no email.
C28_OneNagPerSingerWithUnmarkedRehearsals ==
    NagsGenerated =>
        \A n \in Names(roster) \cup Names(projected_attendance) : NagsAsStated(n)

\* The same for the singers whose roster row has a status for every concert.
C28_SingersWithEveryStatusSet ==
    NagsGenerated =>
        \A n \in Names(roster) \cup Names(projected_attendance) :
            (n \in Names(roster) => \A d \in roster.dates : roster.rows[n].status[d] # NA)
                => NagsAsStated(n)

\* Alice sings this cycle and marked every rehearsal, her status for the later
\* concert is not set: she gets an email that lists the later concert
C28_WitnessConcertListed ==
    /\ NagsGenerated
    /\ SingsThisCycle("Alice")
    /\ projected_attendance.dates # {}
    /\ UnmarkedRehearsals("Alice") = {}
    /\ \E i \in NagsTo("Alice") : ret.emails[i].body.unconfirmed.items = <<LaterConcert>>

\* Alice and Bob both get an email, each with its own unmarked rehearsals
C28_WitnessTwoNags ==
    /\ NagsGenerated
    /\ Len(ret.emails) = 2
    /\ UnmarkedRehearsals("Alice") # UnmarkedRehearsals("Bob")
    /\ \A n \in {"Alice", "Bob"} : NagsAsStated(n) /\ NagsTo(n) # {}

====
